---- MODULE Spec2Model ----
(***************************************************************************)
(* Model of the Satto agent control core (src/src/satto/core/satto.py).    *)
(*                                                                         *)
(* The dispatch loop is modelled as a state machine whose control          *)
(* positions are the places where the coroutine waits on an external       *)
(* collaborator (operator prompt, model client, tool executor) plus the    *)
(* heads of the two loops.  The blocks of a parsed response are revealed   *)
(* one at a time, in order, when the for-loop of                           *)
(* recursively_make_satto_requests reaches them; has_tool_use is fixed     *)
(* when the response arrives, as in the code.                              *)
(***************************************************************************)
EXTENDS Integers, Sequences, FiniteSets, TLC

\* ---------------------------------------------------------------- bounds
MaxToolTurns == 1    \* recursive calls (satto.py:485) made per task
MaxBlocks    == 2    \* content blocks per parsed response
MaxCeiling   == 1    \* largest configured auto_approval_settings.max_requests
MaxTasks     == 2    \* tasks started on one Satto instance
MaxSaved     == 1    \* messages of the history file found at construction

\* ------------------------------------------------------ program constants
\* satto.py:255  consecutive_mistake_count >= 3
MistakeLimit == 3

\* ToolName enum, parse_assistant_message.py:7-20
ToolNames ==
  { "execute_command", "read_file", "write_to_file", "replace_in_file",
    "search_files", "list_files", "list_code_definition_names",
    "browser_action", "use_mcp_tool", "access_mcp_resource",
    "ask_followup_question", "plan_mode_response", "attempt_completion" }

\* keys of AutoApprovalSettings.actions, auto_approval_settings.py:13-19
Categories ==
  { "read_files", "edit_files", "execute_commands", "use_browser", "use_mcp" }

\* Values of the requires_approval parameter of an execute_command block as
\* the loop sees them: the text "true" / "false" in any letter case, the
\* parameter missing, or any other text.
ApprovalParams == { "true", "false", "absent", "other" }

\* A parsed ToolUse block: its name, the requires_approval parameter (only
\* read for execute_command) and whether the parameter the executor branch
\* tests for is present (content for write_to_file, diff for replace_in_file).
ToolUse ==
  { [type |-> "tool_use", name |-> n, ra |-> r, payload |-> p] :
      n \in ToolNames, r \in ApprovalParams, p \in BOOLEAN }

\* The tool uses that differ in a parameter the loop reads.
ToolUseBlocks ==
  { b \in ToolUse :
      /\ (b.name # "execute_command" => b.ra = "absent")
      /\ (b.name \notin {"write_to_file", "replace_in_file"} => b.payload) }

\* the for-loop is at no tool_use block
NoBlock == [type |-> "none", name |-> "none", ra |-> "absent", payload |-> TRUE]

\* AutoApprovalSettings.actions values: the default (every action off,
\* auto_approval_settings.py:13-19), every action on, and exactly one on.
ActionMaps ==
  { [c \in Categories |-> FALSE], [c \in Categories |-> TRUE] }
    \cup { [c \in Categories |-> c = d] : d \in Categories }

\* AutoApprovalSettings values a task is constructed with: auto-approval
\* disabled (the default settings, and every action on under a disabled
\* master switch), or enabled with one of ActionMaps and a ceiling.
SettingsSet ==
  { [enabled |-> FALSE, actions |-> [c \in Categories |-> v],
     max_requests |-> MaxCeiling] : v \in BOOLEAN }
    \cup [ enabled : {TRUE}, actions : ActionMaps, max_requests : 1..MaxCeiling ]

\* ------------------------------------------- prompts/responses formatters
\* One entry of a user message's content list.  block is the position in the
\* response of the block the text was produced for (0 when it is produced
\* for no block).
Item(k, i) == [kind |-> k, block |-> i]

task_content        == << Item("task", 0) >>
format_no_tools_used == Item("no_tools_used", 0)
format_tool_denied   == Item("tool_denied", 0)
format_too_many_mistakes == Item("too_many_mistakes", 0)
format_tool_error(i) == Item("tool_error", i)
format_unknown_tool(i) == Item("unknown_tool_error", i)
format_tool_result_message(i) == Item("tool_result", i)
format_tool_result_content(i) == Item("tool_content", i)
text_item(i) == Item("text", i)

\* A message of the API conversation history, satto.py:281-283.  The history
\* keeps the role and which kind of content list the message carries; the
\* content list itself is user_content, the argument of the call that
\* appends it.
MessageKind(content) ==
  IF content = task_content THEN "task"
  ELSE IF content = << format_no_tools_used >> THEN "no_tools_used"
  ELSE "turn_results"

UserMessage(content) == [role |-> "user", content |-> MessageKind(content)]

\* ------------------------------------------------------------------ state
VARIABLES
  auto_approval_settings,                    \* self.auto_approval_settings
  abort,                                     \* self.abort
  consecutive_mistake_count,                 \* self.consecutive_mistake_count
  consecutive_auto_approved_requests_count,  \* self.consecutive_auto_approved_requests_count
  api_conversation_history,                  \* self.api_conversation_history
  pc,                 \* control position of the task coroutine
  user_content,       \* content the next iteration will append
  next_user_content,  \* accumulator of recursively_make_satto_requests
  n_blocks,           \* len(blocks) of the response being processed
  idx,                \* blocks of that response already consumed by the for-loop
  has_tool_use,       \* any(block.type == "tool_use" for block in blocks)
  seen_tool,          \* a tool_use block has been reached in this response
  block,              \* the block the for-loop is at
  approval,           \* how block passed the gate: "none", "auto", "operator"
  response,           \* answer to the ceiling prompt, until line 288 overwrites it
  requests,           \* create_message calls issued by the task loop in this task
  tool_turns,         \* number of recursive calls made at satto.py:485
  free_run,           \* length of the run of tool-free responses handled last
  scenario,           \* how far the handled responses follow ResetScenario
  last_end,           \* which return False ended the previous turn
  outcome,            \* how the task loop stopped
  abort_at,           \* value of requests when abort was set
  timer,              \* the check_command_timeout task: "none", "scheduled", "notified";
                      \* "untracked" where the timer tasks are left out
  task_no,            \* tasks started on this Satto instance
  saved_history       \* api_conversation_history.json of self.task_id, where
                      \* the history file is tracked

\* everything but the timer task
loop_vars == << auto_approval_settings, abort, consecutive_mistake_count,
                consecutive_auto_approved_requests_count, api_conversation_history,
                pc, user_content, next_user_content, n_blocks, idx, has_tool_use,
                seen_tool, block, approval, response, requests, tool_turns,
                free_run, scenario, last_end, outcome, abort_at >>

satto_vars == << loop_vars, timer, task_no, saved_history >>

\* parse_assistant_message called on one message
VARIABLES
  message,            \* the argument of parse_assistant_message
  blocks,             \* the list it returned
  parser_pc           \* "idle", "called", "returned" or "in_thinking_loop"

parser_vars == << message, blocks, parser_pc >>

\* ReplaceInFileTool.execute applying one diff to one file
VARIABLES
  file_content,            \* the text of the file at abs_path
  original_content,        \* the text execute read from the file
  result,                  \* _construct_new_file_content's result so far
  last_processed_index,    \* the cursor into original_content
  current_search_content,  \* search text of the block being read
  search_match_index,
  search_end_index,
  patch_pc,                \* where the loop over the diff's lines is
  n_instructions,          \* SEARCH/REPLACE blocks completed
  match_tier,              \* how the block being read was located
  patch_error              \* search text named by the raised ValueError

patch_vars == << file_content, original_content, result, last_processed_index,
                 current_search_content, search_match_index, search_end_index,
                 patch_pc, n_instructions, match_tier, patch_error >>

\* get_next_truncation_range called again and again on a growing history
VARIABLES
  messages,        \* the history passed to get_next_truncation_range
  current_range,   \* the range last returned, NoRange before the first call
  n_ranges,        \* calls of get_next_truncation_range made
  last_keep,       \* the keep argument of the last call, "none" before it
  truncated_conversation_history, \* the list last passed to create_message
  context_window,  \* get_model().info['context_window'] of the model in use
  total_tokens,    \* token usage reported with the last response
  awaiting_response  \* create_message has been called and has not returned

truncation_vars == << messages, current_range, n_ranges, last_keep,
                      truncated_conversation_history, context_window,
                      total_tokens, awaiting_response >>

\* state of the functions that are exercised on their own
pure_vars == << parser_vars, patch_vars, truncation_vars >>

vars == << satto_vars, pure_vars >>

\* How a response was handled: "tool_free" (text without tool use),
\* "no_text" (no text key, hence no tool use either), "tool_ok" (every tool
\* use ran and succeeded, none terminal), "tool_unknown" (some tool use had no
\* executor), "tool_failed", "denied", "terminal".
\* The run of responses, counted from the start of the task, that the
\* mistake counter is required to survive.
ResetScenario == << "tool_free", "tool_free", "tool_ok", "tool_free" >>

\* free_run after a response handled as k: responses without a tool use
\* extend the run (counted up to 3), any other response ends it
RunAfter(run, k) ==
  IF k \in {"tool_free", "no_text"}
  THEN (IF run < 3 THEN run + 1 ELSE run)
  ELSE 0

\* scenario after a response handled as k: the number of responses of
\* ResetScenario matched so far, or -1 once the task has left it
ScenarioAfter(sc, k) ==
  IF sc >= 0 /\ sc < Len(ResetScenario) /\ ResetScenario[sc + 1] = k
  THEN sc + 1 ELSE -1

\* ---------------------------------------------------------------- helpers
\* Satto.should_auto_approve_tool, satto.py:216-236
should_auto_approve_tool(s, tool_name) ==
  IF s.enabled
  THEN IF tool_name \in {"read_file", "list_files", "list_code_definition_names", "search_files"}
         THEN s.actions["read_files"]
       ELSE IF tool_name \in {"write_to_file", "replace_in_file"}
         THEN s.actions["edit_files"]
       ELSE IF tool_name = "execute_command"
         THEN s.actions["execute_commands"]
       ELSE IF tool_name = "browser_action"
         THEN s.actions["use_browser"]
       ELSE IF tool_name \in {"access_mcp_resource", "use_mcp_tool"}
         THEN s.actions["use_mcp"]
       ELSE FALSE
  ELSE FALSE

\* satto.py:320-323  requires_approval of a block
requires_approval(b) ==
  IF b.name = "execute_command"
  THEN (IF b.ra = "absent" THEN "true" ELSE b.ra) = "true"
  ELSE TRUE

\* auto_approved with the requires_approval override left out
auto_approved_without_override(s, count, b) ==
  /\ should_auto_approve_tool(s, b.name)
  /\ count < s.max_requests

\* auto_approved that does not compare the count with max_requests
auto_approved_without_ceiling(s, count, b) ==
  IF b.name = "execute_command"
  THEN /\ ~requires_approval(b)
       /\ should_auto_approve_tool(s, b.name)
  ELSE should_auto_approve_tool(s, b.name)

\* satto.py:322-329  auto_approved of a block
auto_approved(s, count, b) ==
  IF b.name = "execute_command"
  THEN /\ ~requires_approval(b)
       /\ should_auto_approve_tool(s, b.name)
       /\ count < s.max_requests
  ELSE /\ should_auto_approve_tool(s, b.name)
       /\ count < s.max_requests

\* satto.py:393-426  the executor branch taken for a block, if any
HasExecutor(b) ==
  \/ b.name \in {"write_to_file", "replace_in_file"} /\ b.payload
  \/ b.name \in {"read_file", "list_files", "search_files",
                 "list_code_definition_names", "attempt_completion",
                 "execute_command", "ask_followup_question",
                 "plan_mode_response"}

\* execute_command_tool.py:27-48  _validate_params rejects the call unless
\* requires_approval is present and is "true" or "false"
CanSucceed(b) ==
  b.name = "execute_command" => b.ra \in {"true", "false"}

\* IsTerminalTool without attempt_completion and ask_followup_question
IsTerminalTool_execute_command_only(tool_name) ==
  tool_name = "execute_command"

\* satto.py:468  tools whose successful result ends the loop
IsTerminalTool(tool_name) ==
  tool_name \in {"attempt_completion", "ask_followup_question", "execute_command"}

\* replace_in_file is not executing
PatchIdle ==
  /\ file_content = << >>
  /\ original_content = << >>
  /\ result = << >>
  /\ last_processed_index = 0
  /\ current_search_content = << >>
  /\ search_match_index = -1
  /\ search_end_index = -1
  /\ patch_pc = "idle"
  /\ n_instructions = 0
  /\ match_tier = "none"
  /\ patch_error = "none"

\* satto.py:108  conversation_history_deleted_range = None
NoRange == [start |-> -1, end |-> -1]

\* the truncation policy is not exercised
TruncationIdle ==
  /\ messages = << >>
  /\ current_range = NoRange
  /\ n_ranges = 0
  /\ last_keep = "none"
  /\ truncated_conversation_history = << >>
  /\ context_window = 128000
  /\ total_tokens = 0
  /\ awaiting_response = FALSE

\* parse_assistant_message is not executing
ParserIdle ==
  /\ message = << >>
  /\ blocks = << >>
  /\ parser_pc = "idle"

\* ------------------------------------------------------------------- Init
\* the history file is not part of the state
Untracked == [tracked |-> FALSE, messages |-> << >>]

\* the history file holds the messages h
Saved(h) == [tracked |-> TRUE, messages |-> h]

\* Satto.__init__, satto.py:54-116: the attributes of the instance and, for
\* the task loop that has not run, its locals and the trackers
Constructed ==
  /\ auto_approval_settings \in SettingsSet
  /\ abort = FALSE
  /\ consecutive_mistake_count = 0
  /\ consecutive_auto_approved_requests_count = 0
  /\ api_conversation_history = << >>
  /\ next_user_content = << >>
  /\ n_blocks = 0
  /\ idx = 0
  /\ has_tool_use = FALSE
  /\ seen_tool = FALSE
  /\ block = NoBlock
  /\ approval = "none"
  /\ response = "none"
  /\ requests = 0
  /\ tool_turns = 0
  /\ free_run = 0
  /\ scenario = 0
  /\ last_end = "none"
  /\ abort_at = 0
  /\ message = << >>
  /\ blocks = << >>
  /\ parser_pc = "idle"
  /\ PatchIdle
  /\ TruncationIdle

\* satto.py:117, api/api_handler.py:9-19  build_api_handler reads .name of
\* the configuration, which __init__ passes as a plain dict: with the
\* factory as shipped the constructor raises AttributeError and there is no
\* instance to call
ConstructorRaised ==
  /\ Constructed
  /\ pc = "no_instance"
  /\ outcome = "constructor_error"
  /\ user_content = << >>
  /\ task_no = 0

\* Satto.__init__ with a build_api_handler that returns a handler, followed
\* by start_task (satto.py:54-117, 156-172), or the constructor raised
LoopInit ==
  \/ /\ Constructed
     /\ pc = "loop_head"
     /\ outcome = "running"
     /\ user_content = task_content
     /\ task_no = 1
  \/ ConstructorRaised

\* the constructor raised: nothing of the program runs
NoInstance ==
  /\ ConstructorRaised
  /\ timer = "untracked"
  /\ saved_history = Untracked

\* the constructor raised when called without settings
NoInstanceByDefault ==
  /\ NoInstance
  /\ auto_approval_settings =
       [enabled |-> FALSE, actions |-> [c \in Categories |-> FALSE],
        max_requests |-> MaxCeiling]

\* there is an instance whose methods can be called
InstanceExists == pc # "no_instance"

\* the task loop alone: the timer tasks it creates and the history file are
\* left out of the state
Init ==
  /\ LoopInit
  /\ timer = "untracked"
  /\ saved_history = Untracked

\* the task loop with the timer tasks it creates; none exists yet
TimerInit ==
  /\ LoopInit
  /\ timer = "none"
  /\ saved_history = Untracked


\* ---------------------------------------------------------------- actions
\* the response being processed has been handled as k
Handled(k) ==
  /\ free_run' = RunAfter(free_run, k)
  /\ scenario' = ScenarioAfter(scenario, k)

\* initiate_task_loop, satto.py:200  the while-condition
LoopHead ==
  /\ pc = "loop_head"
  /\ IF abort
     THEN /\ pc' = "done"
          /\ outcome' = "abort_exit"
     ELSE /\ pc' = "enter"
          /\ UNCHANGED outcome
  /\ UNCHANGED << pure_vars, timer, task_no, saved_history, auto_approval_settings, abort, consecutive_mistake_count,
                  consecutive_auto_approved_requests_count,
                  api_conversation_history, user_content, next_user_content,
                  n_blocks, idx, has_tool_use, seen_tool, block, approval,
                  response, requests, free_run, scenario, last_end, abort_at , tool_turns >>

\* Enter without the abort check of satto.py:252-253
Enter_without_abort_check ==
  /\ pc = "enter"
  /\ IF consecutive_mistake_count >= MistakeLimit
     THEN /\ pc' = "done"
          /\ outcome' = "too_many_mistakes"
          /\ next_user_content' = << format_too_many_mistakes >>
     ELSE IF /\ auto_approval_settings.enabled
             /\ consecutive_auto_approved_requests_count
                  >= auto_approval_settings.max_requests
     THEN /\ pc' = "ask_reset"
          /\ UNCHANGED << outcome, next_user_content >>
     ELSE /\ pc' = "append"
          /\ UNCHANGED << outcome, next_user_content >>
  /\ UNCHANGED << pure_vars, timer, task_no, saved_history, auto_approval_settings, abort, consecutive_mistake_count,
                  consecutive_auto_approved_requests_count,
                  api_conversation_history, user_content,
                  n_blocks, idx, has_tool_use, seen_tool, block, approval,
                  response, requests, free_run, scenario, last_end, abort_at,
                  tool_turns >>

\* recursively_make_satto_requests, satto.py:251-277  the checks made before
\* anything is appended, up to the point where the coroutine either asks the
\* operator about the ceiling or goes on to the request.  At the mistake
\* limit the local next_user_content is assigned the too-many-mistakes text
\* (lines 260-265) before the return; nothing reads it afterwards.
Enter ==
  /\ pc = "enter"
  /\ IF abort
     THEN /\ pc' = "done"
          /\ outcome' = "abort_error"
          /\ UNCHANGED next_user_content
     ELSE IF consecutive_mistake_count >= MistakeLimit
     THEN /\ pc' = "done"
          /\ outcome' = "too_many_mistakes"
          /\ next_user_content' = << format_too_many_mistakes >>
     ELSE IF /\ auto_approval_settings.enabled
             /\ consecutive_auto_approved_requests_count
                  >= auto_approval_settings.max_requests
     THEN /\ pc' = "ask_reset"
          /\ UNCHANGED << outcome, next_user_content >>
     ELSE /\ pc' = "append"
          /\ UNCHANGED << outcome, next_user_content >>
  /\ UNCHANGED << pure_vars, timer, task_no, saved_history, auto_approval_settings, abort, consecutive_mistake_count,
                  consecutive_auto_approved_requests_count,
                  api_conversation_history, user_content,
                  n_blocks, idx, has_tool_use, seen_tool, block, approval,
                  response, requests, free_run, scenario, last_end, abort_at , tool_turns >>

\* satto.py:274-279  the operator answers the ceiling prompt (Satto.ask,
\* satto.py:615-631, returns yesClicked or noClicked) and the count is reset
AnswerReset ==
  /\ pc = "ask_reset"
  /\ \E ans \in {"yesClicked", "noClicked"} : response' = ans
  /\ consecutive_auto_approved_requests_count' = 0
  /\ pc' = "append"
  /\ UNCHANGED << pure_vars, timer, task_no, saved_history, auto_approval_settings, abort, consecutive_mistake_count,
                  api_conversation_history, user_content, next_user_content,
                  n_blocks, idx, has_tool_use, seen_tool, block, approval,
                  requests, free_run, scenario, last_end, outcome, abort_at , tool_turns >>

\* satto.py:281-288, 517-522, 568-573  the user message is appended to the
\* history and the model request is issued.  user_content is not read again
\* by this call.  Between the append and create_message the system prompt is
\* built from api_handler.get_model().info (lines 517-522): with a handler
\* whose get_model returns a plain dict (providers/openai.py:56-60,
\* providers/deepseek.py:70-80) that raises AttributeError, which is caught
\* nowhere: the message is appended, no request is issued and the exception
\* reaches the caller of start_task.  The append is followed by the save of
\* the history file (satto.py:125-133), whose failure is printed and
\* ignored.
Request ==
  /\ pc = "append"
  /\ api_conversation_history' =
       Append(api_conversation_history, UserMessage(user_content))
  /\ saved_history' \in
       IF saved_history.tracked
       THEN { Saved(api_conversation_history'), saved_history }
       ELSE { saved_history }
  /\ user_content' = << >>
  /\ \/ /\ requests' = requests + 1
        /\ last_end' = "none"
        /\ pc' = "await_model"
        /\ UNCHANGED outcome
     \/ /\ pc' = "done"
        /\ outcome' = "prompt_error"
        /\ UNCHANGED << requests, last_end >>
  /\ UNCHANGED << pure_vars, timer, task_no, auto_approval_settings, abort, consecutive_mistake_count,
                  consecutive_auto_approved_requests_count,
                  next_user_content, n_blocks, idx, has_tool_use, seen_tool,
                  block, approval, response, free_run, scenario,
                  abort_at, tool_turns >>

\* satto.py:288-301, 489, 573  the model client returns.  A response without a
\* text key makes the call return False; otherwise the text is parsed into
\* n blocks, has_tool_use is computed and the accumulator is emptied.
\* An exception raised by create_message (e.g. providers/together.py:24-26)
\* is caught nowhere between satto.py:573 and the caller of start_task: it
\* unwinds attempt_api_request, recursively_make_satto_requests and
\* initiate_task_loop.
\* A response that has arrived can still fail to be handled, with or without
\* a tool use in its text:
\*  - its usage is None (providers/together.py:33-47, anthropic.py:93) and
\*    response['usage'].get raises at satto.py:293, or it is a plain dict
\*    (providers/openai.py:48) and response.text raises at satto.py:299; the
\*    exception is caught nowhere and reaches the caller of start_task;
\*  - its text holds a thinking pair whose closing tag does not come after
\*    the opening tag, and parse_assistant_message never returns
\*    (parse_assistant_message.py:83-95).
ModelResponse ==
  /\ pc = "await_model"
  /\ \/ /\ pc' = "done"
        /\ outcome' = "api_error"
        /\ UNCHANGED << response, next_user_content, n_blocks, idx,
                        has_tool_use, seen_tool, last_end, free_run, scenario >>
     \/ /\ response' = "api_response"
        /\ pc' = "turn_end"
        /\ last_end' = "no_text"
        /\ Handled("no_text")
        /\ UNCHANGED << next_user_content, n_blocks, idx, has_tool_use,
                        seen_tool, outcome >>
     \/ \E n \in 0..MaxBlocks, h \in BOOLEAN :
          /\ h => n >= 1
          /\ n_blocks' = n
          /\ has_tool_use' = h
          /\ idx' = 0
          /\ seen_tool' = FALSE
          /\ response' = "api_response"
          /\ next_user_content' = << >>
          /\ pc' = "blocks"
          /\ UNCHANGED << last_end, free_run, scenario, outcome >>
     \/ \E tool_free \in BOOLEAN :
          /\ response' = "api_response"
          /\ free_run' = IF tool_free THEN RunAfter(free_run, "tool_free") ELSE 0
          /\ scenario' = -1
          /\ \/ /\ pc' = "done"
                /\ outcome' = "response_error"
             \/ /\ pc' = "parsing"
                /\ UNCHANGED outcome
          /\ UNCHANGED << next_user_content, n_blocks, idx, has_tool_use,
                          seen_tool, last_end >>
  /\ UNCHANGED << pure_vars, timer, task_no, saved_history, auto_approval_settings, abort, consecutive_mistake_count,
                  consecutive_auto_approved_requests_count,
                  api_conversation_history, user_content, block, approval,
                  requests, abort_at , tool_turns >>

\* TextBlock that puts the text in front of the accumulator
TextBlock_prepends ==
  /\ pc = "blocks"
  /\ idx < n_blocks
  /\ ~(has_tool_use /\ ~seen_tool /\ idx + 1 = n_blocks)
  /\ next_user_content' = << text_item(idx + 1) >> \o next_user_content
  /\ idx' = idx + 1
  /\ UNCHANGED << pure_vars, timer, task_no, saved_history, auto_approval_settings, abort, consecutive_mistake_count,
                  consecutive_auto_approved_requests_count,
                  api_conversation_history, pc, user_content, n_blocks,
                  has_tool_use, seen_tool, block, approval, response,
                  requests, free_run, scenario, last_end, outcome, abort_at , tool_turns >>

\* satto.py:304-313  a text block: its content goes to the accumulator
TextBlock ==
  /\ pc = "blocks"
  /\ idx < n_blocks
  /\ ~(has_tool_use /\ ~seen_tool /\ idx + 1 = n_blocks)
  /\ next_user_content' = Append(next_user_content, text_item(idx + 1))
  /\ idx' = idx + 1
  /\ UNCHANGED << pure_vars, timer, task_no, saved_history, auto_approval_settings, abort, consecutive_mistake_count,
                  consecutive_auto_approved_requests_count,
                  api_conversation_history, pc, user_content, n_blocks,
                  has_tool_use, seen_tool, block, approval, response,
                  requests, free_run, scenario, last_end, outcome, abort_at , tool_turns >>

\* satto.py:393-426, 473-479  the executor branch for block b is entered: the
\* executor is called, or no branch matches and the unknown-tool error is
\* appended and the for-loop goes on.  For an auto-approved execute_command
\* the check_command_timeout task is created first (lines 413-420).
Dispatch(b, auto) ==
  IF HasExecutor(b)
  THEN /\ pc' = "tool_running"
       /\ block' = b
       /\ timer' = IF b.name = "execute_command" /\ auto /\ timer # "untracked"
                   THEN "scheduled" ELSE timer
       /\ UNCHANGED << next_user_content, idx >>
  ELSE /\ pc' = "blocks"
       /\ block' = NoBlock
       /\ next_user_content' = Append(next_user_content, format_unknown_tool(idx + 1))
       /\ idx' = idx + 1
       /\ UNCHANGED timer

\* satto.py:314-383  a tool_use block reaches the approval gate
ToolUseBlock ==
  /\ pc = "blocks"
  /\ idx < n_blocks
  /\ has_tool_use
  /\ \E b \in ToolUseBlocks :
       /\ seen_tool' = TRUE
       /\ IF auto_approved(auto_approval_settings,
                           consecutive_auto_approved_requests_count, b)
          THEN /\ consecutive_auto_approved_requests_count'
                    = consecutive_auto_approved_requests_count + 1
               /\ approval' = "auto"
               /\ Dispatch(b, TRUE)
          ELSE IF requires_approval(b)
          THEN /\ pc' = "ask_tool"
               /\ block' = b
               /\ approval' = "none"
               /\ UNCHANGED << consecutive_auto_approved_requests_count,
                               next_user_content, idx, timer >>
          ELSE /\ approval' = "none"
               /\ Dispatch(b, FALSE)
               /\ UNCHANGED consecutive_auto_approved_requests_count
  /\ UNCHANGED << pure_vars, task_no, saved_history, auto_approval_settings, abort, consecutive_mistake_count,
                  api_conversation_history, user_content, n_blocks,
                  has_tool_use, response, requests, free_run, scenario, last_end,
                  outcome, abort_at , tool_turns >>

\* satto.py:383-390  the operator answers the approval prompt
AnswerTool ==
  /\ pc = "ask_tool"
  /\ \E ans \in {"yesClicked", "noClicked"} :
       /\ IF ans = "yesClicked"
          THEN /\ approval' = "operator"
               /\ Dispatch(block, FALSE)
               /\ UNCHANGED << last_end, free_run, scenario >>
          ELSE /\ next_user_content' = Append(next_user_content, format_tool_denied)
               /\ pc' = "turn_end"
               /\ last_end' = "denied"
               /\ Handled("denied")
               /\ UNCHANGED << block, approval, idx, timer >>
  /\ UNCHANGED << pure_vars, task_no, saved_history, auto_approval_settings, abort, consecutive_mistake_count,
                  consecutive_auto_approved_requests_count,
                  api_conversation_history, user_content, n_blocks,
                  has_tool_use, seen_tool, response, requests, outcome,
                  abort_at , tool_turns >>

\* ToolComplete in which a failed tool lets the for-loop go on to the next
\* block instead of returning False
ToolComplete_continue_after_failure ==
  /\ pc = "tool_running"
  /\ \E success \in BOOLEAN, content \in BOOLEAN :
       /\ success => CanSucceed(block)
       /\ ~success => ~content
       /\ IF ~success
          THEN /\ next_user_content' = Append(next_user_content, format_tool_error(idx + 1))
               /\ pc' = "blocks"
               /\ idx' = idx + 1
               /\ block' = NoBlock
               /\ approval' = "none"
               /\ last_end' = "tool_failed"
               /\ UNCHANGED << outcome, free_run, scenario >>
          ELSE /\ next_user_content' =
                    next_user_content
                      \o << format_tool_result_message(idx + 1) >>
                      \o (IF content THEN << format_tool_result_content(idx + 1) >>
                                     ELSE << >>)
               /\ IF IsTerminalTool(block.name)
                  THEN /\ pc' = "done"
                       /\ outcome' = "terminal"
                       /\ Handled("terminal")
                       /\ UNCHANGED << idx, block, approval, last_end >>
                  ELSE /\ pc' = "blocks"
                       /\ idx' = idx + 1
                       /\ block' = NoBlock
                       /\ approval' = "none"
                       /\ UNCHANGED << outcome, free_run, scenario, last_end >>
  /\ UNCHANGED << pure_vars, timer, task_no, saved_history, auto_approval_settings, abort, consecutive_mistake_count,
                  consecutive_auto_approved_requests_count,
                  api_conversation_history, user_content, n_blocks,
                  has_tool_use, seen_tool, response, requests, abort_at , tool_turns >>

\* satto.py:428-472  the executor returns a ToolResult
ToolComplete ==
  /\ pc = "tool_running"
  /\ \E success \in BOOLEAN, content \in BOOLEAN :
       /\ success => CanSucceed(block)
       /\ ~success => ~content
       /\ IF ~success
          THEN /\ next_user_content' = Append(next_user_content, format_tool_error(idx + 1))
               /\ pc' = "turn_end"
               /\ last_end' = "tool_failed"
               /\ Handled("tool_failed")
               /\ UNCHANGED << idx, block, approval, outcome >>
          ELSE /\ next_user_content' =
                    next_user_content
                      \o << format_tool_result_message(idx + 1) >>
                      \o (IF content THEN << format_tool_result_content(idx + 1) >>
                                     ELSE << >>)
               /\ IF IsTerminalTool(block.name)
                  THEN /\ pc' = "done"
                       /\ outcome' = "terminal"
                       /\ Handled("terminal")
                       /\ UNCHANGED << idx, block, approval, last_end >>
                  ELSE /\ pc' = "blocks"
                       /\ idx' = idx + 1
                       /\ block' = NoBlock
                       /\ approval' = "none"
                       /\ UNCHANGED << outcome, free_run, scenario, last_end >>
  /\ UNCHANGED << pure_vars, timer, task_no, saved_history, auto_approval_settings, abort, consecutive_mistake_count,
                  consecutive_auto_approved_requests_count,
                  api_conversation_history, user_content, n_blocks,
                  has_tool_use, seen_tool, response, requests, abort_at , tool_turns >>

\* the unknown-tool error text is in the accumulator
HasUnknownTool(content) ==
  \E i \in 1..Len(content) : content[i].kind = "unknown_tool_error"

\* satto.py:483-487  the for-loop is over: recurse with the accumulated
\* content when the response had a tool use (the callee starts with fresh
\* locals), return False otherwise
BlocksDone ==
  /\ pc = "blocks"
  /\ idx = n_blocks
  /\ IF has_tool_use
     THEN /\ tool_turns < MaxToolTurns
          /\ tool_turns' = tool_turns + 1
          /\ user_content' = next_user_content
          /\ pc' = "enter"
          /\ Handled(IF HasUnknownTool(next_user_content)
                     THEN "tool_unknown" ELSE "tool_ok")
          /\ next_user_content' = << >>
          /\ n_blocks' = 0
          /\ idx' = 0
          /\ has_tool_use' = FALSE
          /\ seen_tool' = FALSE
          /\ UNCHANGED last_end
     ELSE /\ pc' = "turn_end"
          /\ last_end' = "tool_free"
          /\ Handled("tool_free")
          /\ UNCHANGED << user_content, next_user_content, n_blocks, idx,
                          has_tool_use, seen_tool, tool_turns >>
  /\ UNCHANGED << pure_vars, timer, task_no, saved_history, auto_approval_settings, abort, consecutive_mistake_count,
                  consecutive_auto_approved_requests_count,
                  api_conversation_history, block, approval, response,
                  requests, outcome, abort_at >>

\* initiate_task_loop, satto.py:205-214  the call returned False; its locals
\* are gone
TurnEnd ==
  /\ pc = "turn_end"
  /\ user_content' = << format_no_tools_used >>
  /\ consecutive_mistake_count' = consecutive_mistake_count + 1
  /\ pc' = "loop_head"
  /\ next_user_content' = << >>
  /\ n_blocks' = 0
  /\ idx' = 0
  /\ has_tool_use' = FALSE
  /\ seen_tool' = FALSE
  /\ block' = NoBlock
  /\ approval' = "none"
  /\ UNCHANGED << pure_vars, timer, task_no, saved_history, auto_approval_settings, abort,
                  consecutive_auto_approved_requests_count,
                  api_conversation_history, response, requests, free_run,
                  scenario, last_end, outcome, abort_at , tool_turns >>

\* satto.py:74  abort is a plain attribute set from outside the coroutine, at
\* any control point and also while no call is running
SetAbort ==
  /\ ~abort
  /\ InstanceExists
  /\ abort' = TRUE
  /\ abort_at' = requests
  /\ UNCHANGED << pure_vars, timer, task_no, saved_history, auto_approval_settings, consecutive_mistake_count,
                  consecutive_auto_approved_requests_count,
                  api_conversation_history, pc, user_content,
                  next_user_content, n_blocks, idx, has_tool_use, seen_tool,
                  block, approval, response, requests, free_run, scenario, last_end,
                  outcome , tool_turns >>

\* TimerFires that cancels the command it was started for
TimerFires_cancels_command ==
  /\ timer = "scheduled"
  /\ timer' = "notified"
  /\ IF pc = "tool_running"
     THEN /\ pc' = "turn_end"
          /\ last_end' = "tool_failed"
     ELSE UNCHANGED << pc, last_end >>
  /\ UNCHANGED << pure_vars, task_no, saved_history, auto_approval_settings, abort,
                  consecutive_mistake_count,
                  consecutive_auto_approved_requests_count,
                  api_conversation_history, user_content, next_user_content,
                  n_blocks, idx, has_tool_use, seen_tool, block, approval,
                  response, requests, tool_turns, free_run, scenario,
                  outcome, abort_at >>

\* satto.py:414-420  check_command_timeout: 30 seconds after the task was
\* created the notification is shown (show_notification, satto.py:238-249,
\* prints it).  The task is detached: it runs whenever the event loop gets
\* control, at any position of the task coroutine, or never.
TimerFires ==
  /\ timer = "scheduled"
  /\ timer' = "notified"
  /\ UNCHANGED << pure_vars, loop_vars, task_no, saved_history >>

Next ==
  \/ LoopHead
  \/ Enter
  \/ AnswerReset
  \/ Request
  \/ ModelResponse
  \/ TextBlock
  \/ ToolUseBlock
  \/ AnswerTool
  \/ ToolComplete
  \/ BlocksDone
  \/ TurnEnd
  \/ SetAbort

Spec == Init /\ [][Next]_vars

\* the task loop together with the timer tasks it has created
TimerNext == Next \/ TimerFires

TimerSpec == TimerInit /\ [][TimerNext]_vars

\* what start_task and resume_task have in common: initiate_task_loop is
\* entered with the task text (satto.py:165-172, 188-195); no attribute of
\* the instance other than task_id, satto_messages and the history is
\* assigned
TaskLoopEntered ==
  /\ pc \in {"idle", "done"}
  /\ task_no < MaxTasks
  /\ task_no' = task_no + 1
  /\ requests' = 0
  /\ pc' = "loop_head"
  /\ user_content' = task_content
  /\ next_user_content' = << >>
  /\ n_blocks' = 0
  /\ idx' = 0
  /\ has_tool_use' = FALSE
  /\ seen_tool' = FALSE
  /\ block' = NoBlock
  /\ approval' = "none"
  /\ response' = "none"
  /\ tool_turns' = 0
  /\ free_run' = 0
  /\ scenario' = 0
  /\ last_end' = "none"
  /\ outcome' = "running"
  /\ abort_at' = 0
  /\ UNCHANGED << pure_vars, timer, auto_approval_settings, abort,
                  consecutive_mistake_count,
                  consecutive_auto_approved_requests_count >>

\* a message of a saved history: a user message carrying content of kind k
SavedMessage(k) == [role |-> "user", content |-> k]

\* satto.py:76-80, utils/history.py:112-114  the histories the file of
\* self.task_id can hold after construction: none when no earlier task is
\* found, else the task message of the latest task followed by the user
\* messages of its later requests
SavedHistories ==
  { << >> } \cup
  UNION { { h \in [1..n -> { SavedMessage(k) :
                               k \in {"task", "no_tools_used", "turn_results"} }] :
              h[1] = SavedMessage("task") } : n \in 1..MaxSaved }

\* satto.py:163, 186  the history file of a task id taken from the clock in
\* whole seconds.  Taking the id writes nothing: the file holds what a task
\* started in the same second has saved under that id, by this instance (the
\* file stays as it is) or by another one, and else nothing.
NewTaskFile == { Saved(h) : h \in SavedHistories } \cup { saved_history }

\* satto.py:156-172  start_task on an instance whose task loop is not
\* running: the task gets a new id, and the messages and the API
\* conversation history are replaced by empty lists
StartTask ==
  /\ TaskLoopEntered
  /\ api_conversation_history' = << >>
  /\ saved_history' \in NewTaskFile

\* satto.py:174-195, 601-613  resume_task on an instance whose task loop is
\* not running.  load_history replaces the history by the one saved under
\* self.task_id and returns True when it is not empty (satto_messages is
\* never appended to, so the saved messages are empty).  When it returns
\* False, for an empty saved history or for a file that cannot be read, the
\* task gets a new id and the history is replaced by an empty list, as in
\* start_task.
ResumeTask ==
  /\ TaskLoopEntered
  /\ \/ /\ saved_history.messages # << >>
        /\ api_conversation_history' = saved_history.messages
        /\ UNCHANGED saved_history
     \/ /\ api_conversation_history' = << >>
        /\ saved_history' \in NewTaskFile

\* satto.py:142-154  get_response, called on an instance whose task loop is
\* not running (before the first task or after a task has returned):
\* attempt_api_request(-1) issues a request with the history the instance
\* holds and nothing is appended to it
GetResponse ==
  /\ \/ /\ pc = "done"
        /\ pc' = "get_response_after_task"
     \/ /\ pc = "idle"
        /\ pc' = "get_response_before_task"
  /\ UNCHANGED << pure_vars, timer, task_no, saved_history, auto_approval_settings, abort,
                  consecutive_mistake_count,
                  consecutive_auto_approved_requests_count,
                  api_conversation_history, user_content, next_user_content,
                  n_blocks, idx, has_tool_use, seen_tool, block, approval,
                  response, requests, tool_turns, free_run, scenario, last_end,
                  outcome, abort_at >>

\* satto.py:151-154, 517-573  get_response returns the text or "", or the
\* exception of attempt_api_request reaches its caller; no attribute of the
\* instance is assigned
GetResponseReturns ==
  /\ \/ /\ pc = "get_response_after_task"
        /\ pc' = "done"
     \/ /\ pc = "get_response_before_task"
        /\ pc' = "idle"
  /\ UNCHANGED << pure_vars, timer, task_no, saved_history, auto_approval_settings, abort,
                  consecutive_mistake_count,
                  consecutive_auto_approved_requests_count,
                  api_conversation_history, user_content, next_user_content,
                  n_blocks, idx, has_tool_use, seen_tool, block, approval,
                  response, requests, tool_turns, free_run, scenario, last_end,
                  outcome, abort_at >>

\* Satto.__init__ with a build_api_handler that returns a handler
\* (satto.py:54-117): no task has been started, the history of the instance
\* is empty and self.task_id names the latest task found on disk; or the
\* constructor raised
TaskInit ==
  /\ \/ /\ Constructed
        /\ pc = "idle"
        /\ outcome = "not_started"
        /\ user_content = << >>
        /\ task_no = 0
        /\ saved_history \in { Saved(h) : h \in SavedHistories }
     \/ /\ ConstructorRaised
        /\ saved_history \in { Saved(h) : h \in SavedHistories }
  /\ timer = "untracked"

\* the tasks of one instance, one after the other
TaskNext == Next \/ StartTask \/ ResumeTask \/ GetResponse \/ GetResponseReturns

TaskSpec == TaskInit /\ [][TaskNext]_vars

\* The steps the coroutine takes on its own, without waiting for the model,
\* a tool or the operator, are taken once they are enabled.
SpecFair ==
  /\ Spec
  /\ WF_vars(LoopHead)
  /\ WF_vars(Enter)
  /\ WF_vars(BlocksDone)
  /\ WF_vars(TurnEnd)

TypeOK ==
  /\ abort \in BOOLEAN
  /\ consecutive_mistake_count \in 0..MistakeLimit
  /\ requests \in 0..(MistakeLimit + MaxToolTurns)
  /\ tool_turns \in 0..MaxToolTurns
  /\ free_run \in 0..3
  /\ consecutive_auto_approved_requests_count
       \in 0..auto_approval_settings.max_requests
  /\ Len(api_conversation_history) >= requests
  /\ timer \in {"untracked", "none", "scheduled", "notified"}
  /\ task_no \in 0..MaxTasks
  /\ saved_history.tracked \in BOOLEAN


\* ------------------------------------------------------------------ parser
\* parse_assistant_message.py.  A message is a sequence of tokens: an
\* ordinary character, a whitespace character, or a whole tag.  A tag counts
\* as one position, so str.find and slicing keep the order of positions and
\* len(tag) is 1.

MaxLen == 5          \* longest message parsed

\* ToolName members that occur in parsed messages, in enumeration order
ParserTools == << "execute_command", "read_file" >>

\* ParamName members that occur in parsed messages, in enumeration order
ParserParams == << "path" >>

OpenTag(name)  == "<" \o name \o ">"
CloseTag(name) == "</" \o name \o ">"

Whitespace == { " " }

Tokens ==
  { "a" } \cup Whitespace
    \cup { OpenTag("thinking"), CloseTag("thinking") }
    \cup { OpenTag(ParserTools[i]) : i \in 1..Len(ParserTools) }
    \cup { CloseTag(ParserTools[i]) : i \in 1..Len(ParserTools) }
    \cup { OpenTag(ParserParams[i]) : i \in 1..Len(ParserParams) }
    \cup { CloseTag(ParserParams[i]) : i \in 1..Len(ParserParams) }

Messages == UNION { [1..n -> Tokens] : n \in 0..MaxLen }

MaxSpan == 4         \* longest text between a tool's opening and closing tag

\* tags that name neither a tool nor a parameter
UnknownTags == { "<foo>", "</foo>" }

\* what stands between the opening and the closing tag of a tool: text,
\* parameter tags, unknown tags and the tags of tools
SpanTokens == (Tokens \ { OpenTag("thinking"), CloseTag("thinking") })
                \cup UnknownTags

\* messages that are one tool block: opening tag, span, closing tag
ToolSpanMessages ==
  { << OpenTag(ParserTools[t]) >> \o span \o << CloseTag(ParserTools[t]) >> :
      t \in 1..Len(ParserTools),
      span \in UNION { [1..n -> SpanTokens] : n \in 0..MaxSpan } }

\* s[i:j] with Python's 0-based, end-exclusive indices (0 <= i)
Slice(s, i, j) == SubSeq(s, i + 1, j)

\* s.find(t, from): 0-based index of the first occurrence at or after from,
\* or -1
Find(s, t, from) ==
  LET hits == { i \in from..(Len(s) - 1) : s[i + 1] = t }
  IN  IF hits = {} THEN -1
      ELSE CHOOSE i \in hits : \A j \in hits : i <= j

\* s.rfind(t)
RFind(s, t) ==
  LET hits == { i \in 0..(Len(s) - 1) : s[i + 1] = t }
  IN  IF hits = {} THEN -1
      ELSE CHOOSE i \in hits : \A j \in hits : i >= j

\* t in s
Contains(s, t) == Find(s, t, 0) # -1

\* strip that leaves trailing whitespace in place
Strip_leading_only(s) ==
  LET keep == { i \in 1..Len(s) : s[i] \notin Whitespace }
  IN  IF keep = {} THEN << >>
      ELSE SubSeq(s, CHOOSE i \in keep : \A j \in keep : i <= j, Len(s))

\* s.strip()
Strip(s) ==
  LET keep == { i \in 1..Len(s) : s[i] \notin Whitespace }
  IN  IF keep = {} THEN << >>
      ELSE LET lo == CHOOSE i \in keep : \A j \in keep : i <= j
               hi == CHOOSE i \in keep : \A j \in keep : i >= j
           IN  SubSeq(s, lo, hi)

\* TextContent(type="text", content=..., block_type=...); block_type None is
\* written "none"
TextContent(content, block_type) ==
  [type |-> "text", content |-> content, block_type |-> block_type]

\* parse_assistant_message.py:83-102  the while-loop of add_text_block and the
\* remaining text after it.  When the loop condition holds and the body
\* changes nothing, the loop never ends: hang is TRUE
RECURSIVE ThinkingLoop(_, _)
ThinkingLoop(bs, text) ==
  IF Contains(text, OpenTag("thinking")) /\ Contains(text, CloseTag("thinking"))
  THEN LET start == Find(text, OpenTag("thinking"), 0) + 1
           end   == Find(text, CloseTag("thinking"), 0)
       IN  IF start > 0 /\ end > start
           THEN ThinkingLoop(
                  Append(bs, TextContent(Strip(Slice(text, start, end)),
                                         "thinking")),
                  Strip(Slice(text, end + 1, Len(text))))
           ELSE [blocks |-> bs, hang |-> TRUE]
  ELSE [blocks |-> IF text # << >>
                   THEN Append(bs, TextContent(text, "none"))
                   ELSE bs,
        hang   |-> FALSE]

\* parse_assistant_message.py:76-108
add_text_block(bs, current_text) ==
  LET text == Strip(current_text)
  IN  IF text = << >>
      THEN [blocks |-> bs, hang |-> FALSE]
      ELSE IF /\ Contains(text, OpenTag("thinking"))
              /\ Contains(text, CloseTag("thinking"))
      THEN ThinkingLoop(bs, text)
      ELSE [blocks |-> Append(bs, TextContent(text, "none")), hang |-> FALSE]

\* ToolUse(type="tool_use", name=..., params=...)
ParsedToolUse(name, params) ==
  [type |-> "tool_use", name |-> name, params |-> params]

\* param_value that takes the text up to the last closing tag of the
\* parameter instead of the first one after the opening tag
param_value_to_last_close(content, param) ==
  LET param_start == Find(content, OpenTag(param), 0)
  IN  IF param_start = -1 THEN "absent"
      ELSE LET param_end == RFind(content, CloseTag(param))
           IN  IF param_end < param_start THEN "absent"
               ELSE Strip(Slice(content, param_start + 1, param_end))

\* parse_assistant_message.py:188-195  one known parameter: its value, or
\* "absent" when the opening or the closing tag is not found
param_value(content, param) ==
  LET param_start == Find(content, OpenTag(param), 0)
  IN  IF param_start = -1 THEN "absent"
      ELSE LET param_end == Find(content, CloseTag(param), param_start)
           IN  IF param_end = -1 THEN "absent"
               ELSE Strip(Slice(content, param_start + 1, param_end))

\* parse_assistant_message.py:157-201  block starts with the opening tag of a
\* known tool, which is its first position, and holds its closing tag
parse_tool_block(tool_block) ==
  LET named    == { i \in 1..Len(ParserTools) :
                      tool_block[1] = OpenTag(ParserTools[i]) }
      tool_name == ParserTools[CHOOSE i \in named : \A j \in named : i <= j]
      content_start == 1
      content_end   == RFind(tool_block, CloseTag(tool_name))
      content  == Slice(tool_block, content_start, content_end)
      present  == { ParserParams[i] : i \in
                      { k \in 1..Len(ParserParams) :
                          param_value(content, ParserParams[k]) # "absent" } }
  IN  ParsedToolUse(tool_name,
                    [q \in present |-> param_value(content, q)])

\* parse_assistant_message.py:113-123  the for-loop over ToolName stops at the
\* first member whose opening tag occurs anywhere in the message; 0 when
\* there is none
first_tool_found(msg) ==
  LET found == { i \in 1..Len(ParserTools) :
                   Find(msg, OpenTag(ParserTools[i]), 0) # -1 }
  IN  IF found = {} THEN 0
      ELSE CHOOSE i \in found : \A j \in found : i <= j

\* parse_assistant_message.py:111-152  the while-loop over the message and
\* the final add_text_block
RECURSIVE parse_loop(_, _, _)
parse_loop(msg, current_text, bs) ==
  IF msg = << >>
  THEN add_text_block(bs, current_text)
  ELSE LET t == first_tool_found(msg)
       IN  IF t = 0
           THEN parse_loop(<< >>, current_text \o msg, bs)
           ELSE LET tool_name  == ParserTools[t]
                    tool_start == Find(msg, OpenTag(tool_name), 0)
                    added      == add_text_block(
                                    bs, current_text \o Slice(msg, 0, tool_start))
                    tool_end   == Find(msg, CloseTag(tool_name), tool_start)
                IN  IF added.hang THEN added
                    ELSE IF tool_end = -1
                    THEN parse_loop(<< >>,
                                    Slice(msg, tool_start, Len(msg)),
                                    added.blocks)
                    ELSE parse_loop(
                           Slice(msg, tool_end + 1, Len(msg)),
                           << >>,
                           Append(added.blocks,
                                  parse_tool_block(
                                    Slice(msg, tool_start, tool_end + 1))))

\* parse_assistant_message.py:62-154
parse_assistant_message(msg) == parse_loop(msg, << >>, << >>)

\* an instance constructed with the default settings, on which no task has
\* been started
LoopNotStarted ==
  /\ auto_approval_settings =
       [enabled |-> FALSE, actions |-> [c \in Categories |-> FALSE],
        max_requests |-> MaxCeiling]
  /\ abort = FALSE
  /\ consecutive_mistake_count = 0
  /\ consecutive_auto_approved_requests_count = 0
  /\ api_conversation_history = << >>
  /\ pc = "idle"
  /\ user_content = << >>
  /\ next_user_content = << >>
  /\ n_blocks = 0
  /\ idx = 0
  /\ has_tool_use = FALSE
  /\ seen_tool = FALSE
  /\ block = NoBlock
  /\ approval = "none"
  /\ response = "none"
  /\ requests = 0
  /\ tool_turns = 0
  /\ free_run = 0
  /\ scenario = 0
  /\ last_end = "none"
  /\ outcome = "not_started"
  /\ abort_at = 0
  /\ timer = "none"
  /\ task_no = 0
  /\ saved_history = Untracked

ParserInit ==
  \/ /\ LoopNotStarted
     /\ PatchIdle
     /\ TruncationIdle
     /\ message \in Messages \cup ToolSpanMessages
     /\ blocks = << >>
     /\ parser_pc = "called"
  \/ NoInstanceByDefault

\* one call of parse_assistant_message: it returns its list, or never leaves
\* the while-loop of add_text_block
Parse ==
  /\ parser_pc = "called"
  /\ LET r == parse_assistant_message(message)
     IN  IF r.hang
         THEN /\ parser_pc' = "in_thinking_loop"
              /\ UNCHANGED blocks
         ELSE /\ parser_pc' = "returned"
              /\ blocks' = r.blocks
  /\ UNCHANGED << satto_vars, patch_vars, truncation_vars, message >>

ParserNext == Parse

ParserSpec == ParserInit /\ [][ParserNext]_vars

\* ------------------------------------------------------------ patch engine
\* replace_in_file_tool.py.  Text is a sequence of characters; "\n" ends a
\* line.

MaxOrigLines   == 3    \* lines of the file
MaxSearchLines == 3    \* lines of one SEARCH block
MaxInstr       == 2    \* SEARCH/REPLACE blocks of one diff

\* lines the file and the SEARCH blocks are made of
PatchLines == { << "a" >>, << "b" >>, << " ", "a" >> }

\* lines the REPLACE blocks are made of
ReplaceLines == { << "c" >> }

Min(a, b) == IF a <= b THEN a ELSE b

\* s[i:j] for 0 <= i, with Python's clamping of indices beyond len(s)
PySlice(s, i, j) == SubSeq(s, Min(i, Len(s)) + 1, Min(j, Len(s)))

\* each line followed by '\n', as the loop over the diff accumulates them
\* (replace_in_file_tool.py:195, 197, 200)
RECURSIVE LinesText(_)
LinesText(ls) ==
  IF ls = << >> THEN << >>
  ELSE ls[1] \o << "\n" >> \o LinesText(Tail(ls))

\* '\n'.join(ls)
RECURSIVE JoinLines(_)
JoinLines(ls) ==
  IF ls = << >> THEN << >>
  ELSE IF Len(ls) = 1 THEN ls[1]
  ELSE ls[1] \o << "\n" >> \o JoinLines(Tail(ls))

\* s.split('\n')
RECURSIVE SplitLines(_)
SplitLines(s) ==
  LET nl == Find(s, "\n", 0)
  IN  IF nl = -1 THEN << s >>
      ELSE << SubSeq(s, 1, nl) >> \o SplitLines(SubSeq(s, nl + 2, Len(s)))

\* files: up to MaxOrigLines lines, with or without a final '\n'
Originals ==
  LET texts == UNION { [1..n -> PatchLines] : n \in 0..MaxOrigLines }
  IN  { JoinLines(t) : t \in texts } \cup { LinesText(t) : t \in texts }

\* the last occurrence instead of the first
FindSub_last(s, sub, from) ==
  LET hits == { i \in from..(Len(s) - Len(sub)) :
                  SubSeq(s, i + 1, i + Len(sub)) = sub }
  IN  IF hits = {} THEN -1
      ELSE CHOOSE i \in hits : \A j \in hits : i >= j

\* s.find(sub, from) for a non-empty sub
FindSub(s, sub, from) ==
  LET hits == { i \in from..(Len(s) - Len(sub)) :
                  SubSeq(s, i + 1, i + Len(sub)) = sub }
  IN  IF hits = {} THEN -1
      ELSE CHOOSE i \in hits : \A j \in hits : i <= j

\* None, for the two locators
NoMatch == << -1, -1 >>

\* search_content.split('\n') with the empty trailing line removed
\* (replace_in_file_tool.py:216-220, 260, 266-268)
SearchLinesOf(search_content) ==
  LET ls == SplitLines(search_content)
  IN  IF ls[Len(ls)] = << >> THEN SubSeq(ls, 1, Len(ls) - 1) ELSE ls

\* replace_in_file_tool.py:222-227, 274-279  the while-loop that finds the
\* starting line number
RECURSIVE StartLineNum(_, _, _, _)
StartLineNum(original_lines, start_index, current_index, start_line_num) ==
  IF current_index < start_index /\ start_line_num < Len(original_lines)
  THEN StartLineNum(original_lines, start_index,
                    current_index + Len(original_lines[start_line_num + 1]) + 1,
                    start_line_num + 1)
  ELSE start_line_num

\* sum of len(original_lines[k]) + 1 for k in range(from, from + n)
RECURSIVE LinesLength(_, _, _)
LinesLength(original_lines, from, n) ==
  IF n = 0 THEN 0
  ELSE Len(original_lines[from + 1]) + 1
         + LinesLength(original_lines, from + 1, n - 1)

\* the lines compared as they are, without trimming
line_trimmed_match_untrimmed(original, search_content, start_index) ==
  LET original_lines == SplitLines(original)
      search_lines   == SearchLinesOf(search_content)
      start_line_num == StartLineNum(original_lines, start_index, 0, 0)
      hits == { i \in start_line_num..(Len(original_lines) - Len(search_lines)) :
                  \A j \in 0..(Len(search_lines) - 1) :
                     original_lines[i + j + 1] = search_lines[j + 1] }
  IN  IF hits = {} THEN NoMatch
      ELSE LET i == CHOOSE h \in hits : \A g \in hits : h <= g
               match_start == LinesLength(original_lines, 0, i)
           IN  << match_start,
                  match_start + LinesLength(original_lines, i, Len(search_lines)) >>

\* replace_in_file_tool.py:208-250
line_trimmed_match(original, search_content, start_index) ==
  LET original_lines == SplitLines(original)
      search_lines   == SearchLinesOf(search_content)
      start_line_num == StartLineNum(original_lines, start_index, 0, 0)
      hits == { i \in start_line_num..(Len(original_lines) - Len(search_lines)) :
                  \A j \in 0..(Len(search_lines) - 1) :
                     Strip(original_lines[i + j + 1]) = Strip(search_lines[j + 1]) }
  IN  IF hits = {} THEN NoMatch
      ELSE LET i == CHOOSE h \in hits : \A g \in hits : h <= g
               match_start == LinesLength(original_lines, 0, i)
           IN  << match_start,
                  match_start + LinesLength(original_lines, i, Len(search_lines)) >>

\* replace_in_file_tool.py:252-300
block_anchor_match(original, search_content, start_index) ==
  LET original_lines == SplitLines(original)
      split_lines    == SplitLines(search_content)
      search_lines   == SearchLinesOf(search_content)
      search_block_size == Len(search_lines)
      start_line_num == StartLineNum(original_lines, start_index, 0, 0)
      hits == { i \in start_line_num..(Len(original_lines) - search_block_size) :
                  /\ Strip(original_lines[i + 1]) = Strip(search_lines[1])
                  /\ Strip(original_lines[i + search_block_size])
                       = Strip(search_lines[search_block_size]) }
  IN  IF Len(split_lines) < 3 THEN NoMatch
      ELSE IF hits = {} THEN NoMatch
      ELSE LET i == CHOOSE h \in hits : \A g \in hits : h <= g
               match_start == LinesLength(original_lines, 0, i)
           IN  << match_start,
                  match_start + LinesLength(original_lines, i, search_block_size) >>

\* SEARCH blocks: up to MaxSearchLines lines; no line is the empty search
SearchBlocks == UNION { [1..n -> PatchLines] : n \in 0..MaxSearchLines }

\* REPLACE blocks: no line or one line
ReplaceBlocks == { << >> } \cup { << l >> : l \in ReplaceLines }

\* replace_in_file_tool.py:44-49  execute has read the file and calls
\* _construct_new_file_content, which is about to loop over the diff's lines
ExecuteCalled(files) ==
  /\ LoopNotStarted
  /\ ParserIdle
  /\ TruncationIdle
  /\ original_content \in files
  /\ file_content = original_content
  /\ result = << >>
  /\ last_processed_index = 0
  /\ current_search_content = << >>
  /\ search_match_index = -1
  /\ search_end_index = -1
  /\ patch_pc = "next_block"
  /\ n_instructions = 0
  /\ match_tier = "none"
  /\ patch_error = "none"

PatchInit == ExecuteCalled(Originals) \/ NoInstanceByDefault

\* replace_in_file_tool.py:121-125, 194-195  the line '<<<<<<< SEARCH' and the
\* lines of the SEARCH block that follow it
ReadSearchFrom(search_blocks) ==
  /\ patch_pc = "next_block"
  /\ n_instructions < MaxInstr
  /\ \E ls \in search_blocks : current_search_content' = LinesText(ls)
  /\ patch_pc' = "separator"
  /\ UNCHANGED << satto_vars, parser_vars, truncation_vars, file_content, original_content,
                  result, last_processed_index, search_match_index,
                  search_end_index, n_instructions, match_tier, patch_error >>

ReadSearch == ReadSearchFrom(SearchBlocks)

\* replace_in_file_tool.py:131-174  where the SEARCH block is located:
\* << search_match_index, search_end_index, tier >>, tier "none" when the
\* ValueError is raised
Locate(original, search_content, cursor) ==
  IF search_content = << >>
  THEN IF original = << >>
       THEN << 0, 0, "empty" >>
       ELSE << 0, Len(original), "empty" >>
  ELSE LET exact == FindSub(original, search_content, cursor)
       IN  IF exact # -1
           THEN << exact, exact + Len(search_content), "exact" >>
           ELSE LET trimmed == line_trimmed_match(original, search_content, cursor)
                IN  IF trimmed # NoMatch
                    THEN << trimmed[1], trimmed[2], "line_trimmed" >>
                    ELSE LET anchored ==
                               block_anchor_match(original, search_content, cursor)
                         IN  IF anchored # NoMatch
                             THEN << anchored[1], anchored[2], "block_anchor" >>
                             ELSE << -1, -1, "none" >>

\* s.rstrip(): blanks and newlines at the end are removed
RStrip(s) ==
  LET keep == { i \in 1..Len(s) : s[i] \notin {" ", "\n"} }
  IN  IF keep = {} THEN << >>
      ELSE SubSeq(s, 1, CHOOSE i \in keep : \A j \in keep : i >= j)

\* replace_in_file_tool.py:169-172  the SEARCH text as the message of the
\* ValueError holds it: current_search_content.rstrip() and the newline that
\* the message puts after it
NamedSearch(search_content) == RStrip(search_content) \o << "\n" >>

\* Separator writing the partial result when the SEARCH block is not found
Separator_partial_write ==
  /\ patch_pc = "separator"
  /\ \E m \in { Locate(original_content, current_search_content,
                         last_processed_index) } :
         IF m[3] = "none"
         THEN /\ patch_pc' = "failed"
              /\ patch_error' = NamedSearch(current_search_content)
              /\ file_content' = result
              /\ UNCHANGED << result, search_match_index, search_end_index,
                              match_tier >>
         ELSE /\ patch_pc' = "replace"
              /\ search_match_index' = m[1]
              /\ search_end_index' = m[2]
              /\ match_tier' = m[3]
              /\ result' = result \o PySlice(original_content,
                                             last_processed_index, m[1])
              /\ UNCHANGED << patch_error, file_content >>
  /\ UNCHANGED << satto_vars, parser_vars, truncation_vars, original_content,
                  last_processed_index, current_search_content,
                  n_instructions >>

\* replace_in_file_tool.py:127-178  the line '=======': the SEARCH block is
\* located and the original up to the match is output, or the ValueError is
\* raised, which execute turns into a failed ToolResult (lines 58-65) without
\* writing the file
Separator ==
  /\ patch_pc = "separator"
  /\ \E m \in { Locate(original_content, current_search_content,
                         last_processed_index) } :
         IF m[3] = "none"
         THEN /\ patch_pc' = "failed"
              /\ patch_error' = NamedSearch(current_search_content)
              /\ UNCHANGED << result, search_match_index, search_end_index,
                              match_tier >>
         ELSE /\ patch_pc' = "replace"
              /\ search_match_index' = m[1]
              /\ search_end_index' = m[2]
              /\ match_tier' = m[3]
              /\ result' = result \o PySlice(original_content,
                                             last_processed_index, m[1])
              /\ UNCHANGED patch_error
  /\ UNCHANGED << satto_vars, parser_vars, truncation_vars, file_content, original_content,
                  last_processed_index, current_search_content,
                  n_instructions >>

\* replace_in_file_tool.py:180-200  the lines of the REPLACE block, output as
\* they are read, and the line '>>>>>>> REPLACE'
ReadReplace ==
  /\ patch_pc = "replace"
  /\ \E ls \in ReplaceBlocks : result' = result \o LinesText(ls)
  /\ last_processed_index' = search_end_index
  /\ current_search_content' = << >>
  /\ search_match_index' = -1
  /\ search_end_index' = -1
  /\ n_instructions' = n_instructions + 1
  /\ patch_pc' = "next_block"
  /\ UNCHANGED << satto_vars, parser_vars, truncation_vars, file_content, original_content,
                  match_tier, patch_error >>

\* replace_in_file_tool.py:202-206, 67-82  the diff has no more lines: the
\* rest of the original is output and execute writes the file
WriteFile ==
  /\ patch_pc = "next_block"
  /\ LET new_content ==
           IF last_processed_index < Len(original_content)
           THEN result \o PySlice(original_content, last_processed_index,
                                  Len(original_content))
           ELSE result
     IN  /\ result' = new_content
         /\ file_content' = new_content
  /\ patch_pc' = "written"
  /\ UNCHANGED << satto_vars, parser_vars, truncation_vars, original_content,
                  last_processed_index, current_search_content,
                  search_match_index, search_end_index, n_instructions,
                  match_tier, patch_error >>

PatchNext ==
  \/ ReadSearch
  \/ Separator
  \/ ReadReplace
  \/ WriteFile

PatchSpec == PatchInit /\ [][PatchNext]_vars

\* ---------------------------------------------------- patch engine, anchors
\* The same engine on longer files and SEARCH blocks whose lines may be
\* empty, so that the block-anchor tier (replace_in_file_tool.py:252-300)
\* meets several candidate runs, a cursor beyond the start of the file,
\* blocks of more than three lines, and the empty entry that
\* original_content.split('\n') yields after a final '\n'.

MaxAnchorEntries == 5    \* entries of the split file
MaxAnchorLines   == 4    \* lines of one SEARCH block

\* lines the file and the SEARCH blocks are made of; the last one is the
\* empty line
AnchorLines == { << "a" >>, << " ", "a" >>, << >> }

\* files: the joins of up to MaxAnchorEntries entries; a last entry that is
\* empty makes the file end with '\n'
AnchorOriginals ==
  { JoinLines(t) : t \in UNION { [1..n -> AnchorLines] : n \in 1..MaxAnchorEntries } }

\* SEARCH blocks: 1 to MaxAnchorLines lines, each followed by '\n'
AnchorSearchBlocks == UNION { [1..n -> AnchorLines] : n \in 1..MaxAnchorLines }

AnchorInit == ExecuteCalled(AnchorOriginals) \/ NoInstanceByDefault

AnchorReadSearch == ReadSearchFrom(AnchorSearchBlocks)

AnchorNext ==
  \/ AnchorReadSearch
  \/ Separator
  \/ ReadReplace
  \/ WriteFile

AnchorSpec == AnchorInit /\ [][AnchorNext]_vars

\* -------------------------------------------------------------- truncation
MaxHistory == 8    \* longest history
MaxRanges  == 3    \* calls of get_next_truncation_range

\* values of the keep argument: the two the loop passes (satto.py:557) and
\* one that is neither
KeepValues == { "half", "quarter", "other" }

\* context windows of the models: the three the policy names and two others,
\* one on each side of the point where 0.8 * context_window takes over
ContextWindows == { 64000, 128000, 200000, 100000, 1000000 }

Max(a, b) == IF a >= b THEN a ELSE b

\* satto.py:551-555  max_allowed_size for a context window
max_allowed_size(cw) ==
  IF cw = 64000 THEN cw - 27000
  ELSE IF cw = 128000 THEN cw - 30000
  ELSE IF cw = 200000 THEN cw - 40000
  ELSE Max(cw - 40000, (cw * 8) \div 10)

\* satto.py:557-558  whether the usage calls for truncation, and the keep
\* argument it calls for
needs_truncation(total, cw) == total >= max_allowed_size(cw)

keep_for(total, cw) ==
  IF total > 2 * max_allowed_size(cw) THEN "quarter" ELSE "half"

\* token usages a response reports: none, and the values around the two
\* thresholds of the policy
UsageValues(cw) ==
  { 0, max_allowed_size(cw) - 1, max_allowed_size(cw),
    2 * max_allowed_size(cw), 2 * max_allowed_size(cw) + 1 }

\* the range computed from the start of the history every time
get_next_truncation_range_from_zero(msgs, range, keep) ==
  LET start == 0
      end   == IF keep = "half"
               THEN start + ((Len(msgs) - start) \div 2)
               ELSE IF keep = "quarter"
               THEN start + ((Len(msgs) - start) \div 4)
               ELSE Len(msgs)
  IN  [start |-> start, end |-> end]

\* get_next_truncation_range that rounds the number of messages up
get_next_truncation_range_rounding_up(msgs, range, keep) ==
  LET start == IF range # NoRange THEN range.end ELSE 0
      end   == IF keep = "half"
               THEN start + ((Len(msgs) - start + 1) \div 2)
               ELSE IF keep = "quarter"
               THEN start + ((Len(msgs) - start + 3) \div 4)
               ELSE Len(msgs)
  IN  [start |-> start, end |-> end]

\* satto.py:577-590
get_next_truncation_range(msgs, range, keep) ==
  LET start == IF range # NoRange THEN range.end ELSE 0
      end   == IF keep = "half"
               THEN start + ((Len(msgs) - start) \div 2)
               ELSE IF keep = "quarter"
               THEN start + ((Len(msgs) - start) \div 4)
               ELSE Len(msgs)
  IN  [start |-> start, end |-> end]

\* satto.py:592-599
get_truncated_messages(msgs, range) ==
  IF range = NoRange THEN msgs
  ELSE SubSeq(msgs, range.end + 1, Len(msgs))

TruncationInit ==
  \/ /\ LoopNotStarted
     /\ ParserIdle
     /\ PatchIdle
     /\ messages \in { [i \in 1..n |-> i] : n \in 0..MaxHistory }
     /\ current_range = NoRange
     /\ n_ranges = 0
     /\ last_keep = "none"
     /\ truncated_conversation_history = << >>
     /\ context_window \in ContextWindows
     /\ total_tokens = 0
     /\ awaiting_response = FALSE
  \/ NoInstanceByDefault

\* satto.py:281-283  one more message is appended to the history
Grow ==
  /\ InstanceExists
  /\ Len(messages) < MaxHistory
  /\ messages' = Append(messages, Len(messages) + 1)
  /\ UNCHANGED << satto_vars, parser_vars, patch_vars, current_range,
                  n_ranges, last_keep, truncated_conversation_history,
                  context_window, total_tokens, awaiting_response >>

\* satto.py:559-563  the next range is computed from the one recorded
NextRange ==
  /\ InstanceExists
  /\ n_ranges < MaxRanges
  /\ \E k \in KeepValues :
        /\ last_keep' = k
        /\ current_range' = get_next_truncation_range(messages, current_range, k)
  /\ n_ranges' = n_ranges + 1
  /\ UNCHANGED << satto_vars, parser_vars, patch_vars, messages,
                  truncated_conversation_history, context_window,
                  total_tokens, awaiting_response >>

\* CreateMessage passing the stored history whatever the range is
CreateMessage_whole_history ==
  /\ InstanceExists
  /\ ~awaiting_response
  /\ awaiting_response' = TRUE
  /\ truncated_conversation_history' = messages
  /\ UNCHANGED << satto_vars, parser_vars, patch_vars, messages,
                  current_range, n_ranges, last_keep, context_window,
                  total_tokens >>

\* satto.py:517-573  attempt_api_request.  The block that reads the usage
\* of the previous request and advances the range (lines 524-566) stands
\* under "if False:" and is never executed, and its caller passes
\* previous_api_req_index = -1 (line 287): the view of the history for the
\* recorded range is computed and passed to create_message
CreateMessage ==
  /\ InstanceExists
  /\ ~awaiting_response
  /\ awaiting_response' = TRUE
  /\ truncated_conversation_history'
       = get_truncated_messages(messages, current_range)
  /\ UNCHANGED << satto_vars, parser_vars, patch_vars, messages,
                  current_range, n_ranges, last_keep, context_window,
                  total_tokens >>

\* satto.py:288-297  create_message returns a response with its usage
RecordUsage ==
  /\ awaiting_response
  /\ awaiting_response' = FALSE
  /\ total_tokens' \in UsageValues(context_window)
  /\ UNCHANGED << satto_vars, parser_vars, patch_vars, messages,
                  current_range, n_ranges, last_keep, context_window,
                  truncated_conversation_history >>

TruncationNext ==
  \/ Grow
  \/ NextRange
  \/ CreateMessage
  \/ RecordUsage

TruncationSpec == TruncationInit /\ [][TruncationNext]_vars

\* ------------------------------------------------------------- properties
HasKind(content, k) ==
  \E i \in 1..Len(content) : content[i].kind = k

\* the step that appends user_content and issues the model request
RequestStep == pc = "append" /\ pc' = "await_model"

\* C1 (as claimed): whenever a tool executor is running and auto-approval is
\* off for the tool's category or globally, the operator answered yes to an
\* approval prompt for this tool use.
C1_ApprovalGate ==
  (pc = "tool_running"
     /\ ~should_auto_approve_tool(auto_approval_settings, block.name))
    => approval = "operator"

\* C2 (as claimed): once three responses in a row had no tool use, no
\* further model request is issued, no further message is appended, and the
\* loop stops with the too-many-mistakes outcome.
C2_ThreeToolFreeStop ==
  /\ [][free_run >= 3 =>
          /\ requests' = requests
          /\ api_conversation_history' = api_conversation_history]_vars
  /\ (free_run >= 3) ~> (pc = "done" /\ outcome = "too_many_mistakes")

\* what holds of C2: after the third tool-free response nothing is requested
\* or appended; when that response was handled (it neither raised nor hangs
\* the parser) the loop stops, with the too-many-mistakes outcome unless
\* abort was set
C2_StopsWhenHandled ==
  /\ [][free_run >= 3 =>
          /\ requests' = requests
          /\ api_conversation_history' = api_conversation_history
          /\ (pc' = "done" /\ ~abort' /\ outcome' # "response_error"
                => outcome' = "too_many_mistakes")]_vars
  /\ (free_run >= 3 /\ pc # "parsing") ~> (pc = "done")

\* the third tool-free response in a row was handled and the loop stopped
\* for too many mistakes
C2_Witness ==
  /\ pc = "done"
  /\ outcome = "too_many_mistakes"
  /\ free_run = 3
  /\ requests = 3
  /\ ~abort

\* the third tool-free response in a row raised while its usage was read
C2_ThirdResponseRaises ==
  /\ pc = "done"
  /\ outcome = "response_error"
  /\ free_run = 3
  /\ requests = 3
  /\ consecutive_mistake_count = 2

\* the third tool-free response in a row keeps the parser in its loop
C2_ThirdResponseHangs ==
  /\ pc = "parsing"
  /\ free_run = 3
  /\ requests = 3

\* C3 (as claimed): two tool-free responses, a response whose tools all
\* succeed, and one more tool-free response do not end the task for too many
\* mistakes.
C3_ToolUseResetsMistakes ==
  scenario = Len(ResetScenario)
    => ~(pc = "done" /\ outcome = "too_many_mistakes")

\* C4 (as claimed): the loop stops only after a successful terminal tool,
\* after three responses in a row without tool use, or by abort; denials and
\* tool failures never stop it.
C4_StopCauses ==
  pc = "done" => (outcome = "terminal" \/ free_run >= 3 \/ abort)

\* C5 (as claimed): the user message appended after a turn that a failed
\* ToolResult ended contains the tool-error text.
C5_FailureSurfaced ==
  [][(RequestStep /\ last_end = "tool_failed")
       => HasKind(user_content, "tool_error")]_vars

\* C6 (as claimed): from the operator's no until the next iteration begins,
\* no executor is called, no block is processed, and nothing but the
\* next-turn content changes.
C6_DenialChangesOnlyContent ==
  [][(pc = "turn_end" /\ last_end = "denied") =>
       /\ pc' \notin {"tool_running", "ask_tool", "blocks"}
       /\ consecutive_mistake_count' = consecutive_mistake_count
       /\ consecutive_auto_approved_requests_count'
            = consecutive_auto_approved_requests_count
       /\ api_conversation_history' = api_conversation_history
       /\ requests' = requests]_vars

\* C7 (as claimed): the user message appended after a turn that an operator
\* denial ended contains the tool-denied text.
C7_DenialSurfaced ==
  [][(RequestStep /\ last_end = "denied")
       => HasKind(user_content, "tool_denied")]_vars

\* C8 (as claimed): when the operator answers no to the ceiling prompt the
\* auto-approved count is not reset and the loop does not go on to the
\* request.
C8_CeilingNeedsOptIn ==
  [][(pc = "ask_reset" /\ response' = "noClicked") =>
       /\ consecutive_auto_approved_requests_count'
            = consecutive_auto_approved_requests_count
       /\ pc' # "append"]_vars

\* an execute_command block whose requires_approval is true or absent
ForcedApproval(b) ==
  b.name = "execute_command" /\ b.ra \in {"true", "absent"}

\* C9: an execute_command whose requires_approval is true or absent reaches
\* its executor only after the operator answered yes, and the auto-approved
\* count does not change while the loop is at that block.
C9_RequiresApprovalForcesPrompt ==
  /\ [](pc = "tool_running" /\ ForcedApproval(block) => approval = "operator")
  /\ [][ForcedApproval(block') =>
          consecutive_auto_approved_requests_count'
            = consecutive_auto_approved_requests_count]_vars

C9_Witness ==
  /\ pc = "tool_running"
  /\ ForcedApproval(block)
  /\ approval = "operator"
  /\ should_auto_approve_tool(auto_approval_settings, "execute_command")
  /\ consecutive_auto_approved_requests_count
       < auto_approval_settings.max_requests

\* C10 (as claimed): once abort is set no model request is issued and no
\* message is appended.
C10_NoRequestAfterAbort ==
  [][abort =>
       /\ requests' = requests
       /\ api_conversation_history' = api_conversation_history]_vars

\* C10 (amended): after abort is set at most one more message is appended
\* and one more request issued (by the iteration that had passed its abort
\* check), and a tool in flight is not cancelled: it returns its result.
C10_AtMostOneRequestAfterAbort ==
  /\ [](abort =>
          /\ requests <= abort_at + 1
          /\ Len(api_conversation_history) <= abort_at + 1)
  /\ [][(pc = "tool_running" /\ pc' = "done") => outcome' = "terminal"]_vars

C10_Witness ==
  /\ abort
  /\ requests = abort_at + 1
  /\ pc = "tool_running"

\* C11 (as claimed): an iteration of either loop that begins with abort set
\* ends the task with the abort error, never with a normal return.
C11_AbortIsError ==
  [][(abort /\ pc \in {"loop_head", "enter"} /\ pc' = "done")
       => outcome' = "abort_error"]_vars

\* the step in which the running executor returns a successful result: the
\* wrapped result message of the block is appended to the accumulator
ToolSucceeds ==
  /\ pc = "tool_running"
  /\ Len(next_user_content') > Len(next_user_content)
  /\ next_user_content'[Len(next_user_content) + 1]
       = format_tool_result_message(idx + 1)

\* C21: when attempt_completion or ask_followup_question returns a
\* successful result the task loop ends successfully at once, and from then
\* on no later block of the response is processed, no tool is prompted for or
\* executed and no model request is issued.
C21_TerminalToolStops ==
  /\ [][(ToolSucceeds
           /\ block.name \in {"attempt_completion", "ask_followup_question"})
          => /\ pc' = "done"
             /\ outcome' = "terminal"
             /\ idx' = idx]_vars
  /\ [][(pc = "done" /\ outcome = "terminal")
          => /\ pc' = "done"
             /\ idx' = idx
             /\ block' = block
             /\ requests' = requests
             /\ api_conversation_history' = api_conversation_history]_vars

\* the loop has ended on a terminal tool that was followed by another block
C21_Witness ==
  /\ pc = "done"
  /\ outcome = "terminal"
  /\ block.name \in {"attempt_completion", "ask_followup_question"}
  /\ HasKind(next_user_content, "tool_result")
  /\ idx + 1 < n_blocks

\* C22 (as claimed): a successful execute_command that the operator approved
\* does not end the loop: the for-loop goes on to the next block, so that
\* the result reaches the next request.
C22_ApprovedCommandContinues ==
  [][(ToolSucceeds /\ block.name = "execute_command" /\ approval = "operator")
       => /\ pc' = "blocks"
          /\ outcome' = "running"]_vars

\* C23 (as claimed): a failure of create_message never leaves the loop as a
\* raw exception: the request is retried or the operator is asked, so the
\* task never ends on the request error itself.
C23_RequestFailureHandled ==
  [][pc = "await_model" => pc' # "done"]_vars

\* the step in which the running executor returns success = false: the
\* formatted tool error of the block is appended to the accumulator
ToolFails ==
  /\ pc = "tool_running"
  /\ Len(next_user_content') > Len(next_user_content)
  /\ next_user_content'[Len(next_user_content) + 1] = format_tool_error(idx + 1)

\* C24: when a tool returns success = false the turn ends at once, and until
\* the next model request no block is processed, no tool runs and no approval
\* prompt is issued.
C24_FailedToolEndsTurn ==
  /\ [][ToolFails => /\ pc' = "turn_end"
                     /\ idx' = idx]_vars
  /\ [](last_end = "tool_failed"
          => pc \notin {"blocks", "tool_running", "ask_tool", "await_model"})
  /\ [][last_end = "tool_failed" => /\ idx' <= idx
                                    /\ block' \in {block, NoBlock}]_vars

\* a tool has failed with another block of the response still to come
C24_Witness ==
  /\ pc = "turn_end"
  /\ last_end = "tool_failed"
  /\ HasKind(next_user_content, "tool_error")
  /\ idx + 1 < n_blocks

\* positions of content that were produced for block b
ItemsOf(content, b) == { i \in 1..Len(content) : content[i].block = b }

\* content is what a response of n blocks, every tool use of which succeeded,
\* leaves for the next turn: the items follow the order of the blocks, and
\* every block contributed either its text, once, or its wrapped result
\* message, once, directly followed by its result content if there is one
ReflectsBlocks(content, n) ==
  /\ \A i \in 1..Len(content) :
       /\ content[i].block \in 1..n
       /\ content[i].kind \in {"text", "tool_result", "tool_content"}
  /\ \A i, j \in 1..Len(content) :
       i < j => content[i].block <= content[j].block
  /\ \A b \in 1..n :
       \E i \in ItemsOf(content, b) :
         \/ /\ content[i].kind = "text"
            /\ ItemsOf(content, b) = {i}
         \/ /\ content[i].kind = "tool_result"
            /\ \/ ItemsOf(content, b) = {i}
               \/ /\ ItemsOf(content, b) = {i, i + 1}
                  /\ content[i + 1].kind = "tool_content"

\* C25: after a response whose tool uses all succeeded, none of them
\* terminal, the content handed to the next iteration reflects the blocks in
\* order, each tool result exactly once, and that content is the user message
\* appended for the next model request.
C25_NextTurnContentInOrder ==
  /\ [][(pc = "blocks" /\ pc' = "enter" /\ ~HasUnknownTool(next_user_content))
          => ReflectsBlocks(user_content', n_blocks)]_vars
  /\ [][(pc \in {"enter", "ask_reset"}) => user_content' = user_content]_vars
  /\ [][RequestStep
          => api_conversation_history'
               = Append(api_conversation_history, UserMessage(user_content))]_vars

\* the next request is about to carry a text followed by a tool's result
\* message and result content
C25_Witness ==
  /\ pc = "append"
  /\ user_content = << text_item(1), format_tool_result_message(2),
                       format_tool_result_content(2) >>

\* C35: the detached timer of an auto-approved execute_command has no effect:
\* the step in which it shows its notification changes nothing of the loop,
\* whatever the position of the loop at that moment; a running command is
\* ended by its own return only and its return stays possible whatever the
\* timer has done, so the timer neither blocks nor cancels the command.
C35_TimerHasNoEffect ==
  /\ [][(timer = "scheduled" /\ timer' = "notified")
          => UNCHANGED loop_vars]_vars
  /\ [][(pc = "tool_running" /\ pc' # "tool_running")
          => (ToolSucceeds \/ ToolFails)]_vars
  /\ [](pc = "tool_running" => ENABLED ToolComplete)

\* the notification was shown while the auto-approved command was running
C35_Witness ==
  /\ timer = "notified"
  /\ pc = "tool_running"
  /\ block.name = "execute_command"
  /\ approval = "auto"

\* the task loop of a freshly started task is about to make its first
\* iteration
FirstIteration ==
  /\ pc = "loop_head"
  /\ requests = 0
  /\ last_end = "none"

\* C36 (as claimed): every task starts with fresh agent state: at its first
\* iteration both consecutive counters are 0, also for a task started on an
\* instance that has already run one.
C36_FreshStateAtTaskStart ==
  FirstIteration
    => /\ consecutive_mistake_count = 0
       /\ consecutive_auto_approved_requests_count = 0

\* C36, first task only: the task that follows construction starts with both
\* counters at 0.
C36_FirstTaskFresh ==
  (FirstIteration /\ task_no = 1)
    => /\ consecutive_mistake_count = 0
       /\ consecutive_auto_approved_requests_count = 0

\* the step in which a model request is issued
RequestIssuedStep ==
  /\ pc # "await_model"
  /\ pc' = "await_model"

\* the history after the step is the history before it, or that with one
\* message appended
AppendOnlyStep ==
  \/ api_conversation_history' = api_conversation_history
  \/ /\ Len(api_conversation_history') = Len(api_conversation_history) + 1
     /\ SubSeq(api_conversation_history', 1, Len(api_conversation_history))
          = api_conversation_history

\* C37 without the count: within one task the history is append-only, and
\* every step that issues a model request appends exactly the user message
\* of that request, which is in the history when the request is in flight.
C37_EveryRequestAppends ==
  /\ [][AppendOnlyStep]_vars
  /\ [][RequestIssuedStep
          => api_conversation_history'
               = Append(api_conversation_history, UserMessage(user_content))]_vars
  /\ [](pc = "await_model"
          => /\ requests >= 1
             /\ Len(api_conversation_history) = requests)

\* a message was appended for a request that was never issued
C37_AppendWithoutRequest ==
  /\ pc = "done"
  /\ outcome = "prompt_error"
  /\ Len(api_conversation_history) = requests + 1

\* C37 (as claimed): within one task the API conversation history is
\* append-only; a message is appended exactly in the steps that issue a model
\* request, one per request, and it is the user message of that request,
\* which is in the history when the request is in flight.
C37_HistoryAppendOnly ==
  /\ [][AppendOnlyStep]_vars
  /\ [][RequestIssuedStep
          <=> (Len(api_conversation_history')
                 = Len(api_conversation_history) + 1)]_vars
  /\ [][RequestIssuedStep
          => api_conversation_history'
               = Append(api_conversation_history, UserMessage(user_content))]_vars
  /\ [](pc = "await_model"
          => /\ requests >= 1
             /\ Len(api_conversation_history) = requests)

\* the second request of a task is in flight with two messages in the history
C37_Witness ==
  /\ pc = "await_model"
  /\ requests = 2
  /\ Len(api_conversation_history) = 2
  /\ api_conversation_history[2] # api_conversation_history[1]

\* C37 over the tasks of one instance: the history is append-only in every
\* step that does not start a task; the step that does empties it or, on a
\* resume, replaces it by the history saved under the task id.
C37_AppendOnlyWithinTask ==
  /\ [][(task_no' = task_no) => AppendOnlyStep]_vars
  /\ [][(task_no' # task_no)
          => api_conversation_history' \in {<< >>, saved_history.messages}]_vars

\* the step in which a tool use is auto-approved: its executor is entered,
\* or it has none and the unknown-tool error is appended
AutoApprovalStep ==
  /\ pc = "blocks"
  /\ approval' = "auto"
  /\ \/ pc' = "tool_running"
     \/ /\ Len(next_user_content') = Len(next_user_content) + 1
        /\ next_user_content'[Len(next_user_content')].kind
             = "unknown_tool_error"

\* C39: the count of consecutive auto-approved requests stays between 0 and
\* max_requests; it grows by exactly one in each step that auto-approves a
\* tool use and in no other step, is left alone by the operator's answer to
\* a tool prompt and by a tool's success or failure, and becomes 0 only at
\* the ceiling check at the top of an iteration.
C39_AutoApprovedCountBounded ==
  /\ [](/\ 0 <= consecutive_auto_approved_requests_count
        /\ consecutive_auto_approved_requests_count
             <= auto_approval_settings.max_requests)
  /\ [][AutoApprovalStep
          <=> (consecutive_auto_approved_requests_count'
                 = consecutive_auto_approved_requests_count + 1)]_vars
  /\ [][(pc \in {"ask_tool", "tool_running"})
          => (consecutive_auto_approved_requests_count'
                = consecutive_auto_approved_requests_count)]_vars
  /\ [][(consecutive_auto_approved_requests_count'
           < consecutive_auto_approved_requests_count)
          => /\ pc = "ask_reset"
             /\ consecutive_auto_approved_requests_count' = 0]_vars

\* an auto-approved tool use of a later request has brought the count to
\* the ceiling
C39_Witness ==
  /\ pc = "tool_running"
  /\ approval = "auto"
  /\ requests >= 2
  /\ consecutive_auto_approved_requests_count = auto_approval_settings.max_requests

\* the count has just been reset at the ceiling check of a later iteration
C39_ResetReached ==
  /\ pc = "append"
  /\ requests >= 1
  /\ response \in {"yesClicked", "noClicked"}
  /\ consecutive_auto_approved_requests_count = 0
  /\ auto_approval_settings.enabled

\* ------------------------------------------------------ parser properties
ToolOpenTags  == { OpenTag(ParserTools[i]) : i \in 1..Len(ParserTools) }
ToolCloseTags == { CloseTag(ParserTools[i]) : i \in 1..Len(ParserTools) }

HasToken(s, set) == \E i \in 1..Len(s) : s[i] \in set

Count(s, t) == Cardinality({ i \in 1..Len(s) : s[i] = t })

\* c is s without its leading and trailing whitespace
IsTrimOf(c, s) ==
  \E i \in 1..Len(s) : \E j \in i..Len(s) :
     /\ c = SubSeq(s, i, j)
     /\ s[i] \notin Whitespace /\ s[j] \notin Whitespace
     /\ \A k \in 1..Len(s) : (k < i \/ k > j) => s[k] \in Whitespace

Blank(s) == \A i \in 1..Len(s) : s[i] \in Whitespace

\* the call is over: it returned or it is caught in the thinking loop
Parsed == parser_pc \in {"returned", "in_thinking_loop"}

\* blocks is one normal Text block holding the trimmed message, or empty
\* for a blank message
OneTrimmedText ==
  /\ parser_pc = "returned"
  /\ IF Blank(message) THEN blocks = << >>
     ELSE /\ Len(blocks) = 1
          /\ blocks[1].type = "text"
          /\ blocks[1].block_type = "none"
          /\ IsTrimOf(blocks[1].content, message)

\* C12 (as claimed): a message without a known tool opening tag, thinking
\* tags or not, parses to one normal Text block holding the trimmed message,
\* or to the empty list when it is blank.
C12_RoundTrip ==
  (Parsed /\ ~HasToken(message, ToolOpenTags)) => OneTrimmedText

\* C12 (amended): the same for a message that has no known tool opening tag
\* and does not hold both a <thinking> and a </thinking> tag.
C12_RoundTripWithoutThinkingPair ==
  ( /\ Parsed
    /\ ~HasToken(message, ToolOpenTags)
    /\ ~( /\ Contains(message, OpenTag("thinking"))
          /\ Contains(message, CloseTag("thinking")) ) )
  => OneTrimmedText

C12_Witness ==
  /\ parser_pc = "returned"
  /\ Len(message) = MaxLen
  /\ message[1] \in Whitespace
  /\ message[Len(message)] \in Whitespace
  /\ Contains(message, OpenTag("thinking"))
  /\ Contains(message, CloseTag(ParserTools[1]))
  /\ Len(blocks) = 1
  /\ Len(blocks[1].content) = MaxLen - 2

\* the message is tool-free text with exactly one thinking region, whose
\* content is not blank
OneThinkingRegion(s) ==
  /\ ~HasToken(s, ToolOpenTags)
  /\ Count(s, OpenTag("thinking")) = 1
  /\ Count(s, CloseTag("thinking")) = 1
  /\ Find(s, OpenTag("thinking"), 0) < Find(s, CloseTag("thinking"), 0)
  /\ ~Blank(SubSeq(s, Find(s, OpenTag("thinking"), 0) + 2,
                      Find(s, CloseTag("thinking"), 0)))

\* the text of s outside its thinking region: what precedes the opening tag
\* followed by what follows the closing tag
OutsideThinking(s) ==
  SubSeq(s, 1, Find(s, OpenTag("thinking"), 0))
    \o SubSeq(s, Find(s, CloseTag("thinking"), 0) + 2, Len(s))

\* C13 (as claimed): for text with one thinking region the parser returns the
\* region as a thinking block followed, when the text outside the region is
\* not blank, by one normal Text block holding all of that text (trimmed),
\* the part before the region included.
C13_ThinkingKeepsText ==
  (Parsed /\ OneThinkingRegion(message)) =>
     /\ parser_pc = "returned"
     /\ Len(blocks) = (IF Blank(OutsideThinking(message)) THEN 1 ELSE 2)
     /\ blocks[1].type = "text"
     /\ blocks[1].block_type = "thinking"
     /\ IsTrimOf(blocks[1].content,
                 SubSeq(message, Find(message, OpenTag("thinking"), 0) + 2,
                        Find(message, CloseTag("thinking"), 0)))
     /\ ~Blank(OutsideThinking(message)) =>
          /\ blocks[2].type = "text"
          /\ blocks[2].block_type = "none"
          /\ IsTrimOf(blocks[2].content, OutsideThinking(message))

\* the message holds one known tool opening tag, no closing tag of that tool
\* after it, and no thinking tag
UnclosedToolTag(s) ==
  /\ Cardinality({ i \in 1..Len(s) : s[i] \in ToolOpenTags }) = 1
  /\ ~Contains(s, OpenTag("thinking"))
  /\ ~Contains(s, CloseTag("thinking"))
  /\ \A i \in 1..Len(ParserTools) :
       LET at == Find(s, OpenTag(ParserTools[i]), 0)
       IN  at # -1 => Find(s, CloseTag(ParserTools[i]), at) = -1

\* C14 (as claimed): a message whose tool opening tag is never closed parses
\* to exactly one Text block holding the whole message, and to no ToolUse.
C14_UnclosedTagIsOneText ==
  (Parsed /\ UnclosedToolTag(message)) => OneTrimmedText

IsToolTag(t) == t \in ToolOpenTags \cup ToolCloseTags

IsParsedToolUse(b) == b.type = "tool_use"

\* the known tool whose opening or closing tag t is
ToolOfTag(t) ==
  ParserTools[CHOOSE i \in 1..Len(ParserTools) :
                t \in { OpenTag(ParserTools[i]), CloseTag(ParserTools[i]) }]

\* every tool tag of s belongs to a well-formed tool block: the tool tags
\* come in pairs, an opening tag followed by the closing tag of the same
\* tool; s holds at least two such blocks and no thinking tag
WellFormedToolBlocks(s) ==
  LET tags == SelectSeq(s, IsToolTag)
  IN  /\ Len(tags) >= 4
      /\ Len(tags) % 2 = 0
      /\ \A k \in 1..(Len(tags) \div 2) :
           /\ tags[2 * k - 1] \in ToolOpenTags
           /\ tags[2 * k] = CloseTag(ToolOfTag(tags[2 * k - 1]))
      /\ ~Contains(s, OpenTag("thinking"))
      /\ ~Contains(s, CloseTag("thinking"))

\* C15 (as claimed): for a message made of well-formed tool blocks the
\* returned ToolUse blocks name, in order, the tools whose opening tags occur
\* in the message, and no Text block holds a tool tag.
C15_SourceOrder ==
  (Parsed /\ WellFormedToolBlocks(message)) =>
     LET tags == SelectSeq(message, IsToolTag)
         uses == SelectSeq(blocks, IsParsedToolUse)
     IN  /\ parser_pc = "returned"
         /\ Len(uses) = Len(tags) \div 2
         /\ \A k \in 1..Len(uses) : uses[k].name = ToolOfTag(tags[2 * k - 1])
         /\ \A k \in 1..Len(blocks) :
              blocks[k].type = "text" => ~HasToken(blocks[k].content, ToolOpenTags)

\* msg is one well-formed block of tool o whose path parameter holds, as its
\* whole value, a well-formed block of another tool i with plain text inside
NestedToolBlock(msg, o, i) ==
  /\ o # i
  /\ Len(msg) >= 6
  /\ msg[1] = OpenTag(o)
  /\ msg[2] = OpenTag("path")
  /\ msg[3] = OpenTag(i)
  /\ \A k \in 4..(Len(msg) - 3) : msg[k] \in {"a"} \cup Whitespace
  /\ msg[Len(msg) - 2] = CloseTag(i)
  /\ msg[Len(msg) - 1] = CloseTag("path")
  /\ msg[Len(msg)] = CloseTag(o)

\* C26 (as claimed): a well-formed block of one tool whose parameter value is
\* a well-formed block of another tool is parsed into exactly one ToolUse,
\* the outer tool's, with the inner block as the text of the parameter value,
\* whichever two tools are involved.
C26_NotReentrant ==
  \A o, i \in { ParserTools[t] : t \in 1..Len(ParserTools) } :
    (parser_pc = "returned" /\ NestedToolBlock(message, o, i))
      => blocks = << ParsedToolUse(o,
                       [q \in {"path"} |->
                          SubSeq(message, 3, Len(message) - 2)]) >>

KnownParams == { ParserParams[i] : i \in 1..Len(ParserParams) }

\* <q>...</q> occurs in span: an opening tag of q with a closing tag after it
PairOccurs(span, q) ==
  \E i, j \in 1..Len(span) :
    i < j /\ span[i] = OpenTag(q) /\ span[j] = CloseTag(q)

\* the text between the first opening tag of q in span and the first closing
\* tag of q after it
FirstInner(span, q) ==
  LET i == CHOOSE k \in 1..Len(span) :
             /\ span[k] = OpenTag(q)
             /\ \A l \in 1..(k - 1) : span[l] # OpenTag(q)
      j == CHOOSE k \in (i + 1)..Len(span) :
             /\ span[k] = CloseTag(q)
             /\ \A l \in (i + 1)..(k - 1) : span[l] # CloseTag(q)
  IN  SubSeq(span, i + 1, j - 1)

\* the message is one block of tool o and was parsed as one ToolUse of o
ParsedToolSpan(o) ==
  /\ parser_pc = "returned"
  /\ Len(message) >= 2
  /\ message[1] = OpenTag(o)
  /\ message[Len(message)] = CloseTag(o)
  /\ Len(blocks) = 1
  /\ blocks[1].type = "tool_use"
  /\ blocks[1].name = o

\* C27: for a parsed tool span, params has a key for a known parameter name
\* exactly when <name>...</name> occurs in the span, the value is the trimmed
\* text of the first occurrence, and no other tag produces a key.
C27_ParameterExtraction ==
  \A t \in 1..Len(ParserTools) :
    ParsedToolSpan(ParserTools[t]) =>
      LET span   == SubSeq(message, 2, Len(message) - 1)
          params == blocks[1].params
      IN  /\ DOMAIN params \subseteq KnownParams
          /\ \A q \in KnownParams :
               (q \in DOMAIN params) <=> PairOccurs(span, q)
          /\ \A q \in DOMAIN params :
               IF Blank(FirstInner(span, q))
               THEN params[q] = << >>
               ELSE IsTrimOf(params[q], FirstInner(span, q))

\* a span with an unknown tag in front of a parameter
C27_Witness ==
  /\ ParsedToolSpan("read_file")
  /\ message = << "<read_file>", "<foo>", "<path>", "a", "</path>",
                  "</read_file>" >>
  /\ blocks[1].params = [q \in {"path"} |-> << "a" >>]

\* C28 (as claimed): no Text block returned by the parser, normal or
\* thinking, has an empty or whitespace-only content, and the empty message
\* is parsed into no block.
C28_NoBlankBlocks ==
  parser_pc = "returned" =>
    /\ \A k \in 1..Len(blocks) :
         blocks[k].type = "text" => ~Blank(blocks[k].content)
    /\ message = << >> => blocks = << >>

\* C38 (as claimed): parse_assistant_message terminates on every message:
\* no call is caught in the while-loop of add_text_block, also when
\* </thinking> stands before the first <thinking> or the pair is empty.
C38_ParserTerminates ==
  parser_pc # "in_thinking_loop"

\* C38 without the two cases: a call is caught in the loop only for a text
\* span whose first </thinking> does not stand after the end of its first
\* <thinking> tag.
C38_HangsOnlyOnUnorderedPair ==
  parser_pc = "in_thinking_loop"
    => \E i, j \in 1..Len(message) :
         /\ message[i] = OpenTag("thinking")
         /\ message[j] = CloseTag("thinking")
         /\ j <= i + 1

\* ------------------------------------------------ patch engine properties
\* sub occurs in s at 0-based position i
OccursAt(s, sub, i) ==
  /\ i + Len(sub) <= Len(s)
  /\ SubSeq(s, i + 1, i + Len(sub)) = sub

\* m is the first position at or after from where sub occurs in s
FirstOccurrence(s, sub, from, m) ==
  /\ m >= from
  /\ OccursAt(s, sub, m)
  /\ \A k \in from..(m - 1) : ~OccursAt(s, sub, k)

\* the step that handles the line '=======' for a non-empty SEARCH block
LocateStep == patch_pc = "separator" /\ current_search_content # << >>

\* the step after which the diff has been applied
WriteStep == patch_pc = "next_block" /\ patch_pc' = "written"

\* C16: when the search text occurs verbatim at or after the cursor, the
\* match is its first such occurrence, the original between the cursor and
\* the match is kept, the match is replaced by the replace text, and the
\* rest of the original after the last match is kept.
C16_ExactMatch ==
  [][ /\ ( /\ LocateStep
           /\ \E m \in last_processed_index..Len(original_content) :
                 OccursAt(original_content, current_search_content, m) )
         => /\ patch_pc' = "replace"
            /\ FirstOccurrence(original_content, current_search_content,
                               last_processed_index, search_match_index')
            /\ search_end_index'
                 = search_match_index' + Len(current_search_content)
            /\ result' = result \o SubSeq(original_content,
                                          last_processed_index + 1,
                                          search_match_index')
      /\ (patch_pc = "replace" /\ match_tier = "exact")
         => /\ \E ls \in ReplaceBlocks : result' = result \o LinesText(ls)
            /\ last_processed_index' = search_end_index
      /\ WriteStep
         => file_content' = result \o SubSeq(original_content,
                                             last_processed_index + 1,
                                             Len(original_content))
    ]_vars

\* "a\nb\na\n" with search "b\n" and replace "c\n" became "a\nc\na\n"
C16_Witness ==
  /\ patch_pc = "written"
  /\ n_instructions = 1
  /\ match_tier = "exact"
  /\ original_content = << "a", "\n", "b", "\n", "a", "\n" >>
  /\ file_content = << "a", "\n", "c", "\n", "a", "\n" >>

\* 0-based offset in the text at which line i (0-based) of ls starts
LineStart(ls, i) == LinesLength(ls, 0, i)

\* the n lines of ls from line i (0-based) on start at or after cursor and
\* equal the lines of sl after trimming, line for line
TrimmedRunAt(ls, sl, cursor, i) ==
  /\ i + Len(sl) <= Len(ls)
  /\ LineStart(ls, i) >= cursor
  /\ \A j \in 1..Len(sl) : Strip(ls[i + j]) = Strip(sl[j])

\* C17: when the search text does not occur verbatim at or after the cursor
\* but a run of original lines at or after the cursor equals the search
\* lines after trimming, the block is located by the line-trimmed tier at
\* the first such run, the span is exactly the whole lines of that run, and
\* the span is replaced by the replace text.
C17_LineTrimmedMatch ==
  [][ LET ls == SplitLines(original_content)
          sl == SearchLinesOf(current_search_content)
          runs == { i \in 0..Len(ls) :
                      TrimmedRunAt(ls, sl, last_processed_index, i) }
      IN  /\ ( /\ LocateStep
               /\ ~\E m \in last_processed_index..Len(original_content) :
                      OccursAt(original_content, current_search_content, m)
               /\ runs # {} )
             => LET first == CHOOSE i \in runs : \A k \in runs : i <= k
                IN  /\ patch_pc' = "replace"
                    /\ match_tier' = "line_trimmed"
                    /\ search_match_index' = LineStart(ls, first)
                    /\ search_end_index' = LineStart(ls, first + Len(sl))
                    /\ result' = result \o SubSeq(original_content,
                                                  last_processed_index + 1,
                                                  search_match_index')
          /\ (patch_pc = "replace" /\ match_tier = "line_trimmed")
             => /\ \E rl \in ReplaceBlocks : result' = result \o LinesText(rl)
                /\ last_processed_index' = search_end_index
    ]_vars

\* "b\na\n" with search "b\n a\n" (not found verbatim), replaced by "c\n"
C17_Witness ==
  /\ patch_pc = "written"
  /\ n_instructions = 1
  /\ match_tier = "line_trimmed"
  /\ original_content = << "b", "\n", "b", "\n", "a", "\n" >>
  /\ file_content = << "b", "\n", "c", "\n" >>

\* C18: when a non-empty search text matches at none of the three tiers the
\* application fails naming that search text (as the message holds it,
\* without the whitespace at its end), the file keeps the content it had,
\* and nothing is written afterwards.
C18_FailureIsAtomic ==
  /\ [][ ( /\ LocateStep
           /\ FindSub(original_content, current_search_content,
                      last_processed_index) = -1
           /\ line_trimmed_match(original_content, current_search_content,
                                 last_processed_index) = NoMatch
           /\ block_anchor_match(original_content, current_search_content,
                                 last_processed_index) = NoMatch )
         => /\ patch_pc' = "failed"
            /\ patch_error' = NamedSearch(current_search_content)
            /\ file_content' = file_content ]_vars
  /\ [](patch_pc = "failed" => file_content = original_content)
  /\ [][patch_pc = "failed" => file_content' = file_content]_vars

\* the second instruction failed after the first one had matched
C18_Witness ==
  /\ patch_pc = "failed"
  /\ n_instructions = 1
  /\ result # << >>
  /\ result # original_content
  /\ patch_error # "none"
  /\ file_content = original_content

\* C19 (as claimed): the region matched for an instruction starts at or
\* after the end of the region matched for the previous one (the cursor),
\* ends at or after its own start, and the cursor never moves backwards.
C19_MonotonicCursor ==
  /\ [][(patch_pc = "separator" /\ patch_pc' = "replace")
          => /\ search_match_index' >= last_processed_index
             /\ search_end_index' >= search_match_index']_vars
  /\ [][last_processed_index' >= last_processed_index]_vars

\* C19 restricted to the instructions located by one of the three tiers:
\* for them the region starts at or after the cursor and the cursor does not
\* move backwards.
C19_MonotonicUnderTiers ==
  /\ [][(patch_pc = "separator" /\ patch_pc' = "replace"
           /\ match_tier' \in {"exact", "line_trimmed", "block_anchor"})
          => /\ search_match_index' >= last_processed_index
             /\ search_end_index' >= search_match_index']_vars
  /\ [][(patch_pc = "replace"
           /\ match_tier \in {"exact", "line_trimmed", "block_anchor"})
          => last_processed_index' >= last_processed_index]_vars

\* C29 (as claimed): an instruction with empty search text inserts its
\* replace text at the cursor: it consumes nothing of the original, and a
\* diff made of this one instruction writes the replace text followed by the
\* whole original (the replace text alone when the file was empty).
C29_EmptySearchInserts ==
  /\ [][(patch_pc = "replace" /\ match_tier = "empty"
           /\ patch_pc' = "next_block")
          => last_processed_index' = last_processed_index]_vars
  /\ []((patch_pc = "written" /\ n_instructions = 1 /\ match_tier = "empty")
          => \E r \in ReplaceBlocks :
               file_content = LinesText(r) \o original_content)

\* the Len(sl) lines of ls from line i (0-based) on start at or after cursor,
\* and the first and the last of them equal the first and the last line of
\* sl after trimming
AnchorRunAt(ls, sl, cursor, i) ==
  /\ i + Len(sl) <= Len(ls)
  /\ LineStart(ls, i) >= cursor
  /\ Strip(ls[i + 1]) = Strip(sl[1])
  /\ Strip(ls[i + Len(sl)]) = Strip(sl[Len(sl)])

\* the lines of a file: the entries of text.split('\n') without the empty
\* entry that follows a final '\n'
FileLines(text) == SearchLinesOf(text)

\* C30 (as claimed): a search block of 1 or 2 lines is located by the exact
\* or the line-trimmed tier or not at all; a block of 3 or more lines that
\* these two tiers do not locate is located at the first run of as many
\* lines of the original at or after the cursor whose first and last lines
\* equal its first and last lines after trimming, whatever lies between
\* them, that run is replaced by the replace text, and without such a run
\* the patch fails and the file is left as it was.
C30_BlockAnchorMatch ==
  [][ LET ls == FileLines(original_content)
          sl == SearchLinesOf(current_search_content)
          anchors == { i \in 0..Len(ls) :
                         AnchorRunAt(ls, sl, last_processed_index, i) }
          located == patch_pc' = "replace"
          by_first_two == located /\ match_tier' \in {"exact", "line_trimmed"}
      IN  /\ (LocateStep /\ Len(sl) < 3 /\ located) => by_first_two
          /\ (LocateStep /\ Len(sl) >= 3 /\ ~by_first_two)
             => IF anchors = {}
                THEN /\ patch_pc' = "failed"
                     /\ file_content' = file_content
                ELSE LET first == CHOOSE i \in anchors : \A k \in anchors : i <= k
                     IN  /\ located
                         /\ match_tier' = "block_anchor"
                         /\ search_match_index' = LineStart(ls, first)
                         /\ Min(search_end_index', Len(original_content))
                              = Min(LineStart(ls, first + Len(sl)),
                                    Len(original_content))
                         /\ result' = result \o SubSeq(original_content,
                                                       last_processed_index + 1,
                                                       search_match_index')
          /\ (patch_pc = "replace" /\ match_tier = "block_anchor")
             => /\ Len(sl) >= 3
                /\ \E rl \in ReplaceBlocks : result' = result \o LinesText(rl)
                /\ last_processed_index' = search_end_index
    ]_vars

\* C30, what the code does: the runs are runs of the entries of
\* original_content.split('\n'), the empty entry after a final '\n'
\* included.  When the search text is found neither verbatim nor by trimmed
\* entries, a search block of fewer than 3 lines makes the patch fail, and a
\* block of 3 or more lines is located at the first run of as many entries
\* at or after the cursor whose first and last entries equal its first and
\* last lines after trimming; without such a run the patch fails.
C30_AnchorMatchOnEntries ==
  [][ LET ls == SplitLines(original_content)
          sl == SearchLinesOf(current_search_content)
          trimmed == { i \in 0..Len(ls) :
                         TrimmedRunAt(ls, sl, last_processed_index, i) }
          anchors == { i \in 0..Len(ls) :
                         AnchorRunAt(ls, sl, last_processed_index, i) }
          two_tiers_fail ==
            /\ LocateStep
            /\ ~\E m \in last_processed_index..Len(original_content) :
                   OccursAt(original_content, current_search_content, m)
            /\ trimmed = {}
      IN  /\ (two_tiers_fail /\ (Len(sl) < 3 \/ anchors = {}))
             => /\ patch_pc' = "failed"
                /\ file_content' = file_content
          /\ (two_tiers_fail /\ Len(sl) >= 3 /\ anchors # {})
             => LET first == CHOOSE i \in anchors : \A k \in anchors : i <= k
                IN  /\ patch_pc' = "replace"
                    /\ match_tier' = "block_anchor"
                    /\ search_match_index' = LineStart(ls, first)
                    /\ search_end_index' = LineStart(ls, first + Len(sl))
                    /\ result' = result \o SubSeq(original_content,
                                                  last_processed_index + 1,
                                                  search_match_index')
          /\ (patch_pc = "replace" /\ match_tier = "block_anchor")
             => /\ Len(sl) >= 3
                /\ \E rl \in ReplaceBlocks : result' = result \o LinesText(rl)
                /\ last_processed_index' = search_end_index
    ]_vars

\* the file "a\na\n" has two lines, and a three-line search block that ends
\* with an empty line is located by its anchors at the span (0, 5): its last
\* line is matched with the empty entry after the final '\n'
C30_RunBeyondLastLine ==
  /\ patch_pc = "replace"
  /\ match_tier = "block_anchor"
  /\ original_content = << "a", "\n", "a", "\n" >>
  /\ Len(FileLines(original_content)) = 2
  /\ Len(SearchLinesOf(current_search_content)) = 3
  /\ search_match_index = 0
  /\ search_end_index = 5

\* a block located by its anchors after an earlier block was replaced, at a
\* run that starts after the cursor, with interior lines that differ
C30_RunAfterCursor ==
  /\ patch_pc = "replace"
  /\ match_tier = "block_anchor"
  /\ last_processed_index > 0
  /\ search_match_index > last_processed_index
  /\ \E k \in 2..(Len(SearchLinesOf(current_search_content)) - 1) :
       Strip(SearchLinesOf(current_search_content)[k])
         # Strip(SplitLines(SubSeq(original_content, search_match_index + 1,
                                   Len(original_content)))[k])

\* a block of four lines located by its anchors
C30_FourLineBlock ==
  /\ patch_pc = "replace"
  /\ match_tier = "block_anchor"
  /\ Len(SearchLinesOf(current_search_content)) = 4

\* a block located by its anchors in a file with two candidate runs at or
\* after the cursor: the first one is taken
C30_FirstOfSeveralRuns ==
  /\ patch_pc = "replace"
  /\ match_tier = "block_anchor"
  /\ LET ls == SplitLines(original_content)
         sl == SearchLinesOf(current_search_content)
     IN  Cardinality({ i \in 0..Len(ls) :
                         AnchorRunAt(ls, sl, last_processed_index, i) }) >= 2

\* C31 (as claimed): the matched spans follow one another in the original,
\* and the output is built from the original between them: up to each span
\* the original after the previous span is output unchanged, the span is
\* replaced by the replace text of its instruction, and after the last span
\* the rest of the original is output unchanged.
C31_FramePreserved ==
  [][ /\ (patch_pc = "separator" /\ patch_pc' = "replace")
         => /\ search_match_index' >= last_processed_index
            /\ search_end_index' >= search_match_index'
            /\ result' = result \o SubSeq(original_content,
                                          last_processed_index + 1,
                                          search_match_index')
      /\ (patch_pc = "replace" /\ patch_pc' = "next_block")
         => /\ \E rl \in ReplaceBlocks : result' = result \o LinesText(rl)
            /\ last_processed_index' = search_end_index
      /\ WriteStep
         => file_content' = result \o SubSeq(original_content,
                                             last_processed_index + 1,
                                             Len(original_content))
    ]_vars

\* C31 for diffs without an empty SEARCH block: the same frame, the spans
\* being those located by one of the three tiers.
C31_FramePreservedUnderTiers ==
  [][ /\ (patch_pc = "separator" /\ patch_pc' = "replace"
            /\ match_tier' # "empty")
         => /\ search_match_index' >= last_processed_index
            /\ search_end_index' >= search_match_index'
            /\ result' = result \o SubSeq(original_content,
                                          last_processed_index + 1,
                                          search_match_index')
      /\ (patch_pc = "replace" /\ patch_pc' = "next_block")
         => /\ \E rl \in ReplaceBlocks : result' = result \o LinesText(rl)
            /\ last_processed_index' = search_end_index
      /\ WriteStep
         => file_content' = result \o SubSeq(original_content,
                                             last_processed_index + 1,
                                             Len(original_content))
    ]_vars

\* ---------------------------------------------------- truncation properties
\* C20: every range returned starts where the previous one ended (at 0 for
\* the first call), does not end before its start and does not end beyond
\* the history.
C20_TruncationMonotonic ==
  /\ [][n_ranges' = n_ranges + 1 =>
          /\ current_range'.start
               = (IF n_ranges = 0 THEN 0 ELSE current_range.end)
          /\ current_range'.end >= current_range'.start
          /\ current_range'.end <= Len(messages')]_vars
  /\ [](n_ranges > 0 =>
          /\ 0 <= current_range.start
          /\ current_range.start <= current_range.end
          /\ current_range.end <= Len(messages))

C20_Witness ==
  /\ n_ranges = MaxRanges
  /\ current_range.start > 1
  /\ current_range.end > current_range.start
  /\ current_range.end < Len(messages)

\* C32: a call with keep = half returns start + floor((len - start) / 2) as
\* its end and a call with keep = quarter start + floor((len - start) / 4),
\* start being the end of the previous range, or 0 at the first call.
C32_RangeFormula ==
  [][n_ranges' = n_ranges + 1 =>
       LET start == IF n_ranges = 0 THEN 0 ELSE current_range.end
           rest  == Len(messages) - start
           taken == current_range'.end - start
       IN  /\ current_range'.start = start
           /\ last_keep' = "half" => (2 * taken <= rest /\ rest < 2 * taken + 2)
           /\ last_keep' = "quarter" => (4 * taken <= rest /\ rest < 4 * taken + 4)
    ]_vars

\* a history of 7 messages halved (3 = floor(7 / 2)) and then quartered from 3
C32_Witness ==
  /\ Len(messages) = 7
  /\ n_ranges = 2
  /\ last_keep = "quarter"
  /\ current_range = [start |-> 3, end |-> 4]

\* C33: the list passed to the model client is history[end:] for the
\* recorded range, the whole history when no range is recorded; computing it
\* and advancing the range leave the stored history as it is, and the
\* history only ever grows at its end.
C33_ViewLeavesHistory ==
  /\ [][truncated_conversation_history' # truncated_conversation_history
          => LET end == IF current_range = NoRange THEN 0 ELSE current_range.end
                 view == truncated_conversation_history'
             IN  /\ Len(view) = Len(messages) - end
                 /\ \A i \in 1..Len(view) : view[i] = messages[end + i]
                 /\ messages' = messages]_vars
  /\ [][n_ranges' # n_ranges => messages' = messages]_vars
  /\ [][/\ Len(messages') >= Len(messages)
        /\ SubSeq(messages', 1, Len(messages)) = messages]_vars

\* a history of 8 messages of which the range hides the first 4
C33_Witness ==
  /\ Len(messages) = 8
  /\ current_range = [start |-> 2, end |-> 4]
  /\ truncated_conversation_history = << 5, 6, 7, 8 >>

\* the step in which attempt_api_request passes the history to the client
RequestIssued == ~awaiting_response /\ awaiting_response'

\* C34 (as claimed): when the usage reported with the last response has
\* reached max_allowed_size of the context window, the request advances the
\* truncation range, with keep = quarter when the usage is more than double
\* max_allowed_size and keep = half otherwise, and passes the view of the
\* new range to the model client.
C34_PolicyApplied ==
  [][(RequestIssued /\ needs_truncation(total_tokens, context_window))
       => /\ current_range'
               = get_next_truncation_range(
                   messages, current_range,
                   keep_for(total_tokens, context_window))
          /\ truncated_conversation_history'
               = get_truncated_messages(messages, current_range')]_vars


\* C40 (as claimed): every span the line-trimmed and the block-anchor
\* locator return lies inside the original, at or after the cursor:
\* cursor <= match_start <= match_end <= len(original).
C40_SpanInsideOriginal ==
  [][(LocateStep /\ patch_pc' = "replace"
         /\ match_tier' \in {"line_trimmed", "block_anchor"})
       => /\ last_processed_index <= search_match_index'
          /\ search_match_index' <= search_end_index'
          /\ search_end_index' <= Len(original_content)]_vars

\* C40 (as claimed), the cursor: it never exceeds the length of the original.
C40_CursorInsideOriginal ==
  last_processed_index <= Len(original_content)

\* C40 with the last line allowed for: the span starts at or after the
\* cursor, is not reversed, and ends at most one past the original, which it
\* does only when it ends with a last line that has no newline.
C40_SpanAtMostOnePast ==
  [][(LocateStep /\ patch_pc' = "replace"
         /\ match_tier' \in {"line_trimmed", "block_anchor"})
       => /\ last_processed_index <= search_match_index'
          /\ search_match_index' <= search_end_index'
          /\ search_end_index' <= Len(original_content) + 1]_vars

====
